---- MODULE Spec2Model ----
(***************************************************************************)
(* Model of the transaction queue (core/src/queue.rs) and of the multisig  *)
(* overlay of the default executor.                                        *)
(***************************************************************************)
EXTENDS Integers, Sequences, FiniteSets, TLC

(***************************************************************************)
(* Bounds of the model.                                                    *)
(***************************************************************************)
\* number of distinct transaction payloads (hashes) a client may submit
NumTx == 3
\* the clock runs from 0 to MaxTime
MaxTime == 2
\* Configuration::maximum_transactions_in_queue
max_txs == 2
\* Configuration::maximum_transactions_in_block
txs_in_block == 1
\* Configuration::transaction_time_to_live_ms
ttl == 1
\* Configuration::future_threshold_ms
future_threshold == 1
\* number of signatories of the multisig account (N_SIGNATORIES of the test)
N_SIGNATORIES == 3
\* the largest block timestamp; timestamps are the whole of 0..U64_MAX
U64_MAX == 2
\* the short transaction_ttl_ms of a registration that lets proposals expire
TtlShort == 1

Hashes == 1..NumTx
\* the keys that may sign a transaction; all are signatories of the account
Keys == {"k1", "k2"}
\* a submission carries the signature of one key; merging collects more
SigSets == {{k} : k \in Keys}
SignatureCheckConditions == {"any", "all"}
None == 0

\* creation_time of the payload with hash h (the hash fixes the payload)
creation_time(h) == h - 1

VARIABLES
    queue,      \* Queue::queue, the ring of hashes (ArrayQueue, capacity max_txs)
    txs,        \* Queue::txs, hash -> signatures of the accepted transaction
    now,        \* the current time
    committed,  \* wsv.transactions: hashes already in the blockchain
    signature_check_condition, \* the account's signature check condition in wsv
    last,       \* the last call made on the queue and what it returned
    prod,       \* concurrent use: each producer's position in push
    cons,       \* concurrent use: the consumer's position in get_transactions_for_block
    panicked,   \* concurrent use: an expect of the queue has failed
    final,      \* concurrent use: a call of the consumer ran with all producers stopped
    approvals,          \* multisig account metadata: proposals/<hash>/approvals
    proposed_at_ms,     \* multisig account metadata: proposals/<hash>/proposed_at_ms
    instructions,       \* multisig account metadata: proposals/<hash>/instructions
    role_holders,       \* the accounts granted the multisig account's signatory role
    quorum,             \* multisig account metadata: quorum
    transaction_ttl_ms, \* multisig account metadata: transaction_ttl_ms
    key,                \* multisig account metadata: the key the proposed instructions set
    curr_block,         \* creation time of the current block
    verdict,            \* the last multisig instruction and the executor's verdict on it
    root_approvals,      \* root multisig account metadata: proposals/<hash>/approvals
    root_proposed_at_ms, \* root multisig account metadata: proposals/<hash>/proposed_at_ms
    root_instructions,   \* root multisig account metadata: proposals/<hash>/instructions
    root_key,            \* root multisig account metadata: the key its proposals set
    live_query_store,    \* the live-query store: query id -> batches still to send
    executed_queries,    \* CommonState::executed_queries of the running execution
    specific_state,      \* which kind of WASM execution runs, "none" between executions
    response,            \* the last query request made and what it returned
    issued,              \* the query ids the live-query store has handed out so far
    forgotten,           \* the queries recorded by contracts and triggers that returned normally
    store_fuel,          \* wasmtime Store: the fuel left in the store of the execution
    store_data,          \* wasmtime Store: the data slot, a CommonState or NoState
    entrypoint,          \* the entrypoint the guest runs, "none" between executions
    host,                \* the last step of the host and what it returned
    limits_executor,     \* specific::SmartContract::limits_executor, NoLimits without a limit
    executed_instructions, \* instructions of the execution handed on for execution
    executor_data_model, \* world.executor_data_model
    hashes,              \* the leaf hashes in the order the iterator yields them
    root_node,           \* MerkleTree::root_node
    got,                 \* the last read of the tree and what it returned
    block,               \* the transactions of the block, in the builder's order
    tx_index,            \* how many of them have been executed
    world,               \* the block's snapshot of the world state
    events,              \* the events of the last transaction not yet seen by the trigger engine
    executed,            \* what ran, in order
    custom               \* Executor::verdict after visit_custom, with the payload visited

threads == <<prod, cons, panicked, final>>
root == <<root_approvals, root_proposed_at_ms, root_instructions, root_key>>
multisig == <<approvals, proposed_at_ms, instructions, role_holders, quorum,
              transaction_ttl_ms, key, curr_block, verdict, root>>
wasm == <<live_query_store, executed_queries, specific_state, response, issued,
          forgotten>>
runtime == <<store_fuel, store_data, entrypoint, host, limits_executor,
             executed_instructions, executor_data_model>>
merkle == <<hashes, root_node, got>>
triggers == <<block, tx_index, world, events, executed>>
vars == <<queue, txs, now, committed, signature_check_condition, last, threads,
          multisig, wasm, runtime, merkle, triggers, custom>>

NoTx == [hash |-> None, sigs |-> {}]
NoCall == [op |-> "none", hash |-> None, res |-> "none",
           out |-> <<>>, popped |-> <<>>]

(***************************************************************************)
(* Predicates of a transaction against the clock and the world state.      *)
(***************************************************************************)
is_in_future(h) == creation_time(h) > now + future_threshold

is_expired(h) == now > creation_time(h) + ttl

is_in_blockchain(h) == h \in committed

check_signature_condition(sigs) ==
    IF signature_check_condition = "any"
    THEN sigs \cap Keys # {}
    ELSE Keys \subseteq sigs

is_pending(h) == ~is_expired(h) /\ ~is_in_blockchain(h)

\* check_tx with the ledger looked up before the expiry
check_tx_ledger_first(h, sigs) ==
    IF is_in_blockchain(h) THEN "InBlockchain"
    ELSE IF is_expired(h) THEN "Expired"
    ELSE IF ~check_signature_condition(sigs) THEN "SignatureCondition"
    ELSE "Ok"

\* check_tx that takes a transaction for expired one tick early
check_tx_early_expiry(h, sigs) ==
    IF is_expired(h) \/ now = creation_time(h) + ttl THEN "Expired"
    ELSE IF is_in_blockchain(h) THEN "InBlockchain"
    ELSE IF ~check_signature_condition(sigs) THEN "SignatureCondition"
    ELSE "Ok"

check_tx(h, sigs) ==
    IF is_expired(h) THEN "Expired"
    ELSE IF is_in_blockchain(h) THEN "InBlockchain"
    ELSE IF ~check_signature_condition(sigs) THEN "SignatureCondition"
    ELSE "Ok"

tx_len == Cardinality(DOMAIN txs)

\* the length test passing a map of exactly max_txs entries
is_full_above == tx_len > max_txs

\* push, line 145: the map already holds max_txs entries
is_full == tx_len >= max_txs

\* a merge that overwrites the stored signatures with the new ones
merge_signatures_overwrite(old, new) == new

\* push, lines 153-157: signatures.extend(tx.signatures) of the MST case
merge_signatures(old, new) == old \cup new

\* a pop that drops expired entries only
check_tx_is_err_expiry_only(h, sigs) == is_expired(h)

\* a pop that drops committed entries only
check_tx_is_err_ledger_only(h, sigs) == is_in_blockchain(h)

\* pop, line 195: check_tx(entry.get()).is_err()
check_tx_is_err(h, sigs) == check_tx(h, sigs) # "Ok"

Range(q) == {q[i] : i \in DOMAIN q}
Count(q, h) == Cardinality({i \in DOMAIN q : q[i] = h})
OutHashes(out) == {out[i].hash : i \in DOMAIN out}

Remove(m, h) == [k \in DOMAIN m \ {h} |-> m[k]]
Insert(m, h, sigs) == [k \in DOMAIN m \cup {h} |-> IF k = h THEN sigs ELSE m[k]]

(***************************************************************************)
(* Queue::push, as one atomic call.                                        *)
(***************************************************************************)
push_result(h, sigs) ==
    LET tx == [hash |-> h, sigs |-> sigs]
        reject(e) == [queue |-> queue, txs |-> txs, res |-> e, returned |-> tx]
    IN  IF is_in_future(h) THEN reject("InFuture")
        ELSE IF check_tx(h, sigs) # "Ok" THEN reject(check_tx(h, sigs))
        ELSE IF is_full THEN reject("Full")
        ELSE IF h \in DOMAIN txs
             THEN \* MST case: merge the signatures, no second handle
                  [queue |-> queue, txs |-> [txs EXCEPT ![h] = merge_signatures(@, sigs)],
                   res |-> "Ok", returned |-> NoTx]
        ELSE IF Len(queue) >= max_txs
             THEN \* the ring is full: the map insertion is undone
                  [queue |-> queue, txs |-> Remove(Insert(txs, h, sigs), h),
                   res |-> "Full",
                   returned |-> [hash |-> h, sigs |-> Insert(txs, h, sigs)[h]]]
        ELSE [queue |-> Append(queue, h), txs |-> Insert(txs, h, sigs),
              res |-> "Ok", returned |-> NoTx]

push(h, sigs) ==
    LET r == push_result(h, sigs)
    IN  /\ queue' = r.queue
        /\ txs' = r.txs
        /\ last' = [NoCall EXCEPT !.op = "push", !.hash = h, !.res = r.res]
        /\ UNCHANGED <<now, committed, signature_check_condition, threads, multisig, wasm, runtime, merkle, triggers, custom>>

(***************************************************************************)
(* Queue::pop and Queue::get_transactions_for_block, as one atomic call.   *)
(***************************************************************************)
RECURSIVE pop(_, _, _, _)
pop(q, m, seen, popped) ==
    IF q = <<>>
    THEN [queue |-> q, txs |-> m, seen |-> seen, popped |-> popped, tx |-> NoTx]
    ELSE LET hash == Head(q)
         IN  IF hash \notin DOMAIN m
             THEN pop(Tail(q), m, seen, Append(popped, hash))
             ELSE IF check_tx_is_err(hash, m[hash])
             THEN pop(Tail(q), Remove(m, hash), seen, Append(popped, hash))
             ELSE IF check_signature_condition(m[hash])
             THEN [queue |-> Tail(q), txs |-> m, seen |-> Append(seen, hash),
                   popped |-> Append(popped, hash),
                   tx |-> [hash |-> hash, sigs |-> m[hash]]]
             ELSE pop(Tail(q), m, Append(seen, hash), Append(popped, hash))

RECURSIVE collect(_, _, _, _, _, _)
collect(q, m, seen, popped, out, n) ==
    IF n = 0
    THEN [queue |-> q, txs |-> m, seen |-> seen, popped |-> popped, out |-> out]
    ELSE LET r == pop(q, m, seen, popped)
         IN  IF r.tx = NoTx
             THEN [queue |-> r.queue, txs |-> r.txs, seen |-> r.seen,
                   popped |-> r.popped, out |-> out]
             ELSE collect(r.queue, r.txs, r.seen, r.popped,
                          Append(out, r.tx), n - 1)

\* the seen hashes put back before the hashes that were not reached
repush_in_front(q, seen) == seen \o q

\* lines 229-232: seen.into_iter().try_for_each(|hash| self.queue.push(hash))
repush(q, seen) == q \o seen

get_transactions_for_block ==
    LET r == collect(queue, txs, <<>>, <<>>, <<>>, txs_in_block)
    IN  /\ Len(r.queue) + Len(r.seen) <= max_txs  \* the expect never fails here
        /\ queue' = repush(r.queue, r.seen)
        /\ txs' = r.txs
        /\ last' = [NoCall EXCEPT !.op = "get", !.out = r.out,
                                  !.popped = r.popped]
        /\ UNCHANGED <<now, committed, signature_check_condition, threads, multisig, wasm, runtime, merkle, triggers, custom>>

(***************************************************************************)
(* The environment of the queue: the clock and the world state.            *)
(***************************************************************************)
Tick ==
    /\ now < MaxTime
    /\ now' = now + 1
    /\ last' = NoCall
    /\ UNCHANGED <<queue, txs, committed, signature_check_condition, threads, multisig, wasm, runtime, merkle, triggers, custom>>

Commit(h) ==
    /\ h \notin committed
    /\ committed' = committed \cup {h}
    /\ last' = NoCall
    /\ UNCHANGED <<queue, txs, now, signature_check_condition, threads, multisig, wasm, runtime, merkle, triggers, custom>>

SetSignatureCheckCondition(c) ==
    /\ c # signature_check_condition
    /\ signature_check_condition' = c
    /\ last' = NoCall
    /\ UNCHANGED <<queue, txs, now, committed, threads, multisig, wasm, runtime, merkle, triggers, custom>>

\* no instruction seen yet
NoVerdict == [op |-> "none", hash |-> None, res |-> "none", msg |-> "", ran |-> FALSE]

\* no multisig account stands above the multisig account
NoRoot ==
    /\ root_approvals = <<>>
    /\ root_proposed_at_ms = <<>>
    /\ root_instructions = <<>>
    /\ root_key = "none"

\* the queue runs with no multisig account registered
NoMultisig ==
    /\ approvals = <<>>
    /\ proposed_at_ms = <<>>
    /\ instructions = <<>>
    /\ role_holders = {}
    /\ quorum = 0
    /\ transaction_ttl_ms = 0
    /\ key = "none"
    /\ curr_block = 0
    /\ verdict = NoVerdict
    /\ NoRoot

NoResponse == [op |-> "none", cursor |-> None, res |-> "none", by |-> "none"]

\* no WASM execution runs and the live-query store is empty
NoWasm ==
    /\ live_query_store = <<>>
    /\ executed_queries = {}
    /\ specific_state = "none"
    /\ response = NoResponse
    /\ issued = {}
    /\ forgotten = {}

NoOutcome == [op |-> "none", arg |-> "none", res |-> "none", err |-> "none",
              consumed |-> 0]

\* Option::None of the data slot of a store
NoState == [authority |-> "none", executed_queries |-> {}]
\* Option::None of limits_executor (max_instruction_count is a NonZeroU64)
NoLimits == [instruction_count |-> 0, max_instruction_count |-> 0]

\* no WASM store exists and the executor data model is the one of genesis
NoRuntime ==
    /\ store_fuel = 0
    /\ store_data = NoState
    /\ entrypoint = "none"
    /\ host = NoOutcome
    /\ limits_executor = NoLimits
    /\ executed_instructions = 0
    /\ executor_data_model = "genesis"

\* Node::Empty
Empty == [kind |-> "Empty", hash |-> <<"b", 0>>, left |-> <<>>, right |-> <<>>]
NoGot == [op |-> "none", idx |-> 0, build |-> "none", res |-> <<"none">>]

\* MerkleTree::new: no tree is built
NoMerkle ==
    /\ hashes = <<>>
    /\ root_node = Empty
    /\ got = NoGot

\* the world state after genesis: alice is registered, carol owns no roses
Genesis == [accounts |-> {"alice"}, roses |-> 0]

\* no Custom instruction has been visited
NoCustom == [payload |-> "none", build |-> "none", res |-> "none", msg |-> ""]

\* no block is being executed
NoBlock ==
    /\ block = <<>>
    /\ tx_index = 0
    /\ world = Genesis
    /\ events = <<>>
    /\ executed = <<>>

Producers == {"p1", "p2"}
Idle == [pc |-> "idle", tx |-> NoTx, res |-> "none", returned |-> NoTx]
ConsIdle == [pc |-> "idle", hash |-> None, seen |-> <<>>, out |-> <<>>]

InitThreads ==
    /\ prod = [p \in Producers |-> Idle]
    /\ cons = ConsIdle
    /\ panicked = FALSE
    /\ final = "no"

Init ==
    /\ queue = <<>>
    /\ txs = <<>>
    /\ now = 0
    /\ committed = {}
    /\ signature_check_condition = "any"
    /\ last = NoCall
    /\ InitThreads
    /\ NoWasm
    /\ NoRuntime
    /\ NoMerkle
    /\ NoBlock
    /\ custom = NoCustom
    /\ NoMultisig

Push == \E h \in Hashes, sigs \in SigSets : push(h, sigs)
GetTransactionsForBlock == get_transactions_for_block
CommitTx == \E h \in Hashes : Commit(h)
SetCondition == \E c \in SignatureCheckConditions : SetSignatureCheckCondition(c)

Next == Push \/ GetTransactionsForBlock \/ Tick \/ CommitTx \/ SetCondition

Spec == Init /\ [][Next]_vars

(***************************************************************************)
(* Concurrent use: several producers in push and one consumer in           *)
(* get_transactions_for_block, one access to the map or the ring per step. *)
(***************************************************************************)
env == <<now, signature_check_condition, last, multisig, wasm, runtime, merkle, triggers, custom>>

Return(p, res, returned) ==
    prod' = [prod EXCEPT ![p].pc = "returned", ![p].res = res,
                         ![p].returned = returned]

\* lines 139-144: is_in_future and check_tx read the world state
p_check(p, h, sigs) ==
    /\ prod[p].pc = "idle"
    /\ LET tx == [hash |-> h, sigs |-> sigs]
       IN  IF is_in_future(h)
           THEN prod' = [prod EXCEPT ![p] = [pc |-> "returned", tx |-> tx,
                                             res |-> "InFuture", returned |-> tx]]
           ELSE IF check_tx(h, sigs) # "Ok"
           THEN prod' = [prod EXCEPT ![p] = [pc |-> "returned", tx |-> tx,
                                             res |-> check_tx(h, sigs),
                                             returned |-> tx]]
           ELSE prod' = [prod EXCEPT ![p] = [pc |-> "len", tx |-> tx,
                                             res |-> "none", returned |-> NoTx]]
    /\ final' = "no"
    /\ UNCHANGED <<queue, txs, committed, cons, panicked, env>>

\* lines 145-147: txs.len() >= max_txs
p_len(p) ==
    /\ prod[p].pc = "len"
    /\ IF is_full
       THEN Return(p, "Full", prod[p].tx)
       ELSE prod' = [prod EXCEPT ![p].pc = "entry"]
    /\ UNCHANGED <<queue, txs, committed, cons, panicked, final, env>>

\* lines 149-163: txs.entry(hash), merge when occupied, insert when vacant
p_entry(p) ==
    /\ prod[p].pc = "entry"
    /\ LET h == prod[p].tx.hash
       IN  IF h \in DOMAIN txs
           THEN /\ txs' = [txs EXCEPT ![h] = merge_signatures(@, prod[p].tx.sigs)]
                /\ Return(p, "Ok", NoTx)
           ELSE /\ txs' = Insert(txs, h, prod[p].tx.sigs)
                /\ prod' = [prod EXCEPT ![p].pc = "ring"]
    /\ UNCHANGED <<queue, committed, cons, panicked, final, env>>

\* line 165: queue.push(hash)
p_ring(p) ==
    /\ prod[p].pc = "ring"
    /\ IF Len(queue) < max_txs
       THEN /\ queue' = Append(queue, prod[p].tx.hash)
            /\ Return(p, "Ok", NoTx)
       ELSE /\ queue' = queue
            /\ prod' = [prod EXCEPT ![p].pc = "undo"]
    /\ UNCHANGED <<txs, committed, cons, panicked, final, env>>

\* lines 166-170: txs.remove(&err_hash).expect(..), return the removed entry
p_undo(p) ==
    /\ prod[p].pc = "undo"
    /\ LET h == prod[p].tx.hash
       IN  IF h \in DOMAIN txs
           THEN /\ txs' = Remove(txs, h)
                /\ Return(p, "Full", [hash |-> h, sigs |-> txs[h]])
                /\ panicked' = panicked
           ELSE /\ txs' = txs
                /\ Return(p, "panic", NoTx)
                /\ panicked' = TRUE
    /\ UNCHANGED <<queue, committed, cons, final, env>>

\* the caller takes the result; the producer may call again
p_return(p) ==
    /\ prod[p].pc = "returned"
    /\ prod' = [prod EXCEPT ![p] = Idle]
    /\ UNCHANGED <<queue, txs, committed, cons, panicked, final, env>>

AllIdle == \A p \in Producers : prod[p].pc = "idle"

\* where the consumer goes once pop has returned: take(txs_in_block) is
\* satisfied or the ring was empty, and then nothing is left to push back
AfterCollect(seen, out) ==
    [pc |-> IF seen = <<>> THEN "got" ELSE "repush",
     hash |-> None, seen |-> seen, out |-> out]

\* the front hash read and left in the ring
ArrayQueue_peek(q) == q
\* ArrayQueue::pop: the ring without its front hash
ArrayQueue_pop(q) == Tail(q)

\* line 188: queue.pop(), the call starting when the consumer is idle
c_pop ==
    /\ cons.pc \in {"idle", "pop"}
    /\ LET started == IF cons.pc = "idle" /\ AllIdle THEN "running"
                      ELSE IF cons.pc = "idle" THEN "no" ELSE final
           c == IF Len(cons.out) >= txs_in_block \/ queue = <<>>
                THEN AfterCollect(cons.seen, cons.out)
                ELSE [cons EXCEPT !.pc = "entry", !.hash = Head(queue)]
       IN  /\ cons' = c
           /\ queue' = IF c.pc = "entry" THEN ArrayQueue_pop(queue) ELSE queue
           /\ final' = IF c.pc = "got" /\ started = "running" THEN "done"
                       ELSE IF c.pc = "got" THEN "no" ELSE started
    /\ UNCHANGED <<txs, committed, prod, panicked, env>>

\* lines 189-207: txs.entry(hash), drop or record the entry
c_entry ==
    /\ cons.pc = "entry"
    /\ LET h == cons.hash
       IN  IF h \notin DOMAIN txs
           THEN /\ txs' = txs
                /\ cons' = [cons EXCEPT !.pc = "pop", !.hash = None]
           ELSE IF check_tx_is_err(h, txs[h])
           THEN /\ txs' = Remove(txs, h)
                /\ cons' = [cons EXCEPT !.pc = "pop", !.hash = None]
           ELSE /\ txs' = txs
                /\ cons' =
                     IF check_signature_condition(txs[h])
                     THEN [cons EXCEPT !.pc = "pop", !.hash = None,
                              !.seen = Append(@, h),
                              !.out = Append(@, [hash |-> h, sigs |-> txs[h]])]
                     ELSE [cons EXCEPT !.pc = "pop", !.hash = None,
                              !.seen = Append(@, h)]
    /\ UNCHANGED <<queue, committed, prod, panicked, final, env>>

\* lines 230-232: queue.push(hash) of one seen hash, expect on failure
c_repush ==
    /\ cons.pc = "repush"
    /\ IF Len(queue) < max_txs
       THEN /\ queue' = Append(queue, Head(cons.seen))
            /\ cons' = [cons EXCEPT !.seen = Tail(@),
                           !.pc = IF Tail(cons.seen) = <<>> THEN "got" ELSE "repush"]
            /\ final' = IF Tail(cons.seen) # <<>> THEN final
                        ELSE IF final = "running" THEN "done" ELSE "no"
            /\ panicked' = panicked
       ELSE /\ queue' = queue
            /\ cons' = ConsIdle
            /\ final' = IF final = "running" THEN "done" ELSE "no"
            /\ panicked' = TRUE
    /\ UNCHANGED <<txs, committed, prod, env>>

\* the consumer commits what it got (tests::concurrent_stress_test)
c_commit ==
    /\ cons.pc = "got"
    /\ committed' = committed \cup OutHashes(cons.out)
    /\ cons' = ConsIdle
    /\ UNCHANGED <<queue, txs, prod, panicked, final, env>>

InitConc ==
    /\ queue = <<>>
    /\ txs = <<>>
    /\ now = 1
    /\ committed = {}
    /\ signature_check_condition = "any"
    /\ last = NoCall
    /\ InitThreads
    /\ NoWasm
    /\ NoRuntime
    /\ NoMerkle
    /\ NoBlock
    /\ custom = NoCustom
    /\ NoMultisig

ProducerStep ==
    \E p \in Producers :
        \/ \E h \in Hashes, sigs \in SigSets : p_check(p, h, sigs)
        \/ p_len(p)
        \/ p_entry(p)
        \/ p_ring(p)
        \/ p_undo(p)
        \/ p_return(p)

ConsumerStep == c_pop \/ c_entry \/ c_repush \/ c_commit

NextConc == ProducerStep \/ ConsumerStep

SpecConc == InitConc /\ [][NextConc]_vars

(***************************************************************************)
(* Multisig transactions of one multisig account                           *)
(* (default_executor/src/multisig/transaction.rs).                         *)
(***************************************************************************)
\* the signatories of the multisig account with their weights: the i-th
\* signatory weighs i (tests/multisig.rs, 1 + index)
signatories == [id \in 1..N_SIGNATORIES |-> id]
\* a resident of the domain that is not a signatory
not_signatory == 0
\* an account of another domain
CARPENTER_ID == -1
Accounts == DOMAIN signatories \cup {not_signatory, CARPENTER_ID}
\* the domain of the residents and of the multisig account
kingdom == "kingdom"
domain(account) == IF account = CARPENTER_ID THEN "garden_of_live_flowers"
                   ELSE kingdom
\* the role held by every account
multisig_role_of_all == Accounts

\* the accounts granted the role multisig_signatory of the multisig account
multisig_role == role_holders

RECURSIVE sum(_, _)
sum(weights, ids) ==
    IF ids = {} THEN 0
    ELSE LET id == CHOOSE id \in ids : TRUE
         IN  weights[id] + sum(weights, ids \ {id})

\* the quorums a registration may ask for: the one of the test, met without
\* the first signatory, and one that the lightest signatory meets alone
Quorums == {sum(signatories, DOMAIN signatories \ {1}), signatories[1]}
Ttls == {TtlShort, U64_MAX}

\* a proposal is a list of one SetKeyValue on the multisig account
InstructionLists == {<<"value">>, <<"other">>}
\* the root multisig account, of which the multisig account is a signatory
msa_012345 == -3
\* MultisigApprove::new(account, instructions_hash) as an instruction
approve_me(account, h) ==
    IF h = 1 THEN "approve the proposal of value"
    ELSE "approve the proposal of other"
\* HashOf::new: the hash identifies the instruction list
HashOf(instrs) ==
    IF instrs = <<"value">> THEN 1
    ELSE IF instrs = <<"other">> THEN 2
    ELSE IF instrs = <<approve_me(msa_012345, 1)>> THEN 3
    ELSE 4
InstructionHashes == {HashOf(instrs) : instrs \in InstructionLists}

wrapping_add(a, b) == (a + b) % (U64_MAX + 1)
saturating_add(a, b) == IF a + b > U64_MAX THEN U64_MAX ELSE a + b

\* the quorum compared strictly
is_authenticated_strict(apprs) ==
    quorum < sum(signatories, {id \in DOMAIN signatories : id \in apprs})
\* every approving signatory counted twice
is_authenticated_twice(apprs) ==
    quorum <= 2 * sum(signatories, {id \in DOMAIN signatories : id \in apprs})
\* lines 191-196
is_authenticated(apprs) ==
    quorum <= sum(signatories, {id \in DOMAIN signatories : id \in apprs})

\* the deadline computed with a wrapping addition
approve_is_expired_wrapping(at) == wrapping_add(at, transaction_ttl_ms) < curr_block
\* the deadline taken one millisecond later
approve_is_expired_late(at) == saturating_add(at, transaction_ttl_ms) + 1 < curr_block

\* line 198
approve_is_expired(at) == saturating_add(at, transaction_ttl_ms) < curr_block

\* deny!(executor, msg): the verdict of a denied instruction
Denied(op, h, msg) ==
    [op |-> op, hash |-> h, res |-> "Denied", msg |-> msg, ran |-> FALSE]
Passed(op, h, ran) ==
    [op |-> op, hash |-> h, res |-> "Ok", msg |-> "", ran |-> ran]

\* RemoveKeyValue that leaves the key in place
RemoveKeyValue_kept(m, h) == m

\* RemoveKeyValue / SetKeyValue on the account metadata
RemoveKeyValue(m, h) == [k \in DOMAIN m \ {h} |-> m[k]]
SetKeyValue(m, h, v) == [k \in DOMAIN m \cup {h} |-> IF k = h THEN v ELSE m[k]]

\* the registrant's domain never compared
same_domain_always(authority) == TRUE
\* default_executor/src/lib.rs line 66
same_domain(authority) == domain(authority) = kingdom

\* MultisigRegister: visit_multisig_register, then the registration of the
\* account, its settings and its role (multisig/account.rs, main)
MultisigRegister(authority, q, t) ==
    /\ IF ~same_domain(authority)
       THEN /\ verdict' = Denied("register", None,
                 "multisig account and its registrant must be in the same domain")
            /\ UNCHANGED <<role_holders, quorum, transaction_ttl_ms>>
       ELSE IF role_holders # {}
       THEN /\ verdict' = Denied("register", None,
                 "accounts registry should successfully register a multisig account")
            /\ UNCHANGED <<role_holders, quorum, transaction_ttl_ms>>
       ELSE /\ role_holders' = DOMAIN signatories
            /\ quorum' = q
            /\ transaction_ttl_ms' = t
            /\ verdict' = Passed("register", None, FALSE)
    /\ UNCHANGED <<approvals, proposed_at_ms, instructions, key, curr_block>>
    /\ UNCHANGED <<queue, txs, now, committed, signature_check_condition, last,
                   threads, root, wasm, runtime, merkle, triggers>>

\* a lookup that finds no proposal
proposal_not_found(h) == FALSE
\* lines 16-19 and 106-109: FindAccountMetadata of approvals_key(hash)
proposal_found(h) == h \in DOMAIN approvals

\* a proposal recorded with no approval
approvals_of_nobody(init_authority) == {}
\* line 69: BTreeSet::from([init_authority.clone()])
approvals_of_proposal(init_authority) == {init_authority}

\* MultisigPropose: visit (lines 5-22), then execute (lines 24-91)
MultisigPropose(authority, instrs) ==
    LET instructions_hash == HashOf(instrs)
    IN  /\ IF authority \notin multisig_role
           THEN /\ verdict' = Denied("propose", instructions_hash, "role not found")
                /\ UNCHANGED <<approvals, proposed_at_ms, instructions>>
           ELSE IF proposal_found(instructions_hash)
           THEN /\ verdict' = Denied("propose", instructions_hash,
                                     "proposal duplicates")
                /\ UNCHANGED <<approvals, proposed_at_ms, instructions>>
           ELSE /\ instructions' = SetKeyValue(instructions, instructions_hash, instrs)
                /\ proposed_at_ms' = SetKeyValue(proposed_at_ms, instructions_hash,
                                                 curr_block)
                /\ approvals' = SetKeyValue(approvals, instructions_hash,
                                            approvals_of_proposal(authority))
                /\ verdict' = Passed("propose", instructions_hash, FALSE)
        /\ UNCHANGED <<role_holders, quorum, transaction_ttl_ms, key, curr_block>>
        /\ UNCHANGED <<queue, txs, now, committed, signature_check_condition, last,
                       threads, root, wasm, runtime, merkle, triggers>>

\* MultisigApprove: visit (lines 95-115), then execute (lines 117-225)
MultisigApprove(authority, instructions_hash) ==
    /\ IF authority \notin multisig_role
       THEN /\ verdict' = Denied("approve", instructions_hash, "role not found")
            /\ UNCHANGED <<approvals, proposed_at_ms, instructions, key>>
       ELSE IF ~proposal_found(instructions_hash)
       THEN /\ verdict' = Denied("approve", instructions_hash,
                                 "no proposals to approve")
            /\ UNCHANGED <<approvals, proposed_at_ms, instructions, key>>
       ELSE LET apprs == approvals[instructions_hash] \cup {authority}
                authenticated == is_authenticated(apprs)
                expired == approve_is_expired(proposed_at_ms[instructions_hash])
            IN  IF authenticated \/ expired
                THEN /\ approvals' = RemoveKeyValue(approvals, instructions_hash)
                     /\ proposed_at_ms' = RemoveKeyValue(proposed_at_ms, instructions_hash)
                     /\ instructions' = RemoveKeyValue(instructions, instructions_hash)
                     /\ key' = IF ~expired THEN instructions[instructions_hash][1]
                               ELSE key
                     /\ verdict' = Passed("approve", instructions_hash, ~expired)
                ELSE /\ approvals' = SetKeyValue(approvals, instructions_hash, apprs)
                     /\ UNCHANGED <<proposed_at_ms, instructions, key>>
                     /\ verdict' = Passed("approve", instructions_hash, FALSE)
    /\ UNCHANGED <<role_holders, quorum, transaction_ttl_ms, curr_block>>
    /\ UNCHANGED <<queue, txs, now, committed, signature_check_condition, last,
                   threads, root, wasm, runtime, merkle, triggers>>

\* a block is created later than the current one
NewBlock ==
    /\ curr_block < U64_MAX
    /\ curr_block' = curr_block + 1
    /\ verdict' = NoVerdict
    /\ UNCHANGED <<approvals, proposed_at_ms, instructions, role_holders, quorum,
                   transaction_ttl_ms, key>>
    /\ UNCHANGED <<queue, txs, now, committed, signature_check_condition, last,
                   threads, root, wasm, runtime, merkle, triggers, custom>>

\* the domain populated with residents, no multisig account registered yet
InitMultisig ==
    /\ queue = <<>>
    /\ txs = <<>>
    /\ now = 0
    /\ committed = {}
    /\ signature_check_condition = "any"
    /\ last = NoCall
    /\ InitThreads
    /\ NoWasm
    /\ NoRuntime
    /\ NoMerkle
    /\ NoBlock
    /\ custom = NoCustom
    /\ approvals = <<>>
    /\ proposed_at_ms = <<>>
    /\ instructions = <<>>
    /\ role_holders = {}
    /\ quorum = 0
    /\ transaction_ttl_ms = 0
    /\ key = "none"
    /\ curr_block = 0
    /\ verdict = NoVerdict
    /\ NoRoot

Register == \E authority \in Accounts, q \in Quorums, t \in Ttls :
                MultisigRegister(authority, q, t) /\ UNCHANGED custom
Propose == \E authority \in Accounts, instrs \in InstructionLists :
               MultisigPropose(authority, instrs) /\ UNCHANGED custom
Approve == \E authority \in Accounts, h \in InstructionHashes :
               MultisigApprove(authority, h) /\ UNCHANGED custom

NextMultisig == Register \/ Propose \/ Approve \/ NewBlock

SpecMultisig == InitMultisig /\ [][NextMultisig]_vars

(***************************************************************************)
(* A tree of multisig accounts (tests/multisig.rs, multisig_recursion):    *)
(* the root account has a personal signatory and the multisig account.     *)
(***************************************************************************)
\* the multisig account as a signatory of the root
msa_12345 == -2
\* the personal signatory of the root, who proposes
sig_0 == not_signatory
\* every signatory of the root weighs 1, the quorum is their number and
\* proposals never expire
root_signatories == [id \in {sig_0, msa_12345} |-> 1]
root_quorum == Cardinality(DOMAIN root_signatories)
root_transaction_ttl_ms == U64_MAX
root_role == DOMAIN root_signatories

\* lines 44-49: the signatory has a signatory role of its own
is_multisig_again(signatory) == signatory = msa_12345 /\ role_holders # {}

\* lines 52-57: the block builds MultisigPropose::new(signatory, [approve_me])
\* and ends it with `;`, so the value bound to propose_to_approve_me is ()
propose_to_approve_me(signatory, h) == "()"

\* the signatories of the root that line 58 hands a proposal
prompted(h) ==
    {signatory \in DOMAIN root_signatories :
        is_multisig_again(signatory) /\ propose_to_approve_me(signatory, h) # "()"}

\* MultisigPropose on the root: visit (lines 5-22), then execute (lines 24-91);
\* an instruction submitted by the executor runs under the authority of the
\* transaction (iroha_core wasm.rs, execute_instruction)
MultisigPropose_root(authority, instrs) ==
    LET instructions_hash == HashOf(instrs)
        derived == HashOf(<<approve_me(msa_012345, instructions_hash)>>)
    IN  /\ IF authority \notin root_role
           THEN /\ verdict' = Denied("propose on root", instructions_hash,
                                     "role not found")
                /\ UNCHANGED <<root_approvals, root_proposed_at_ms, root_instructions,
                               approvals, proposed_at_ms, instructions>>
           ELSE IF instructions_hash \in DOMAIN root_approvals
           THEN /\ verdict' = Denied("propose on root", instructions_hash,
                                     "proposal duplicates")
                /\ UNCHANGED <<root_approvals, root_proposed_at_ms, root_instructions,
                               approvals, proposed_at_ms, instructions>>
           ELSE /\ IF msa_12345 \in prompted(instructions_hash)
                   THEN /\ instructions' =
                             SetKeyValue(instructions, derived,
                                 <<approve_me(msa_012345, instructions_hash)>>)
                        /\ proposed_at_ms' = SetKeyValue(proposed_at_ms, derived,
                                                         curr_block)
                        /\ approvals' = SetKeyValue(approvals, derived, {authority})
                   ELSE UNCHANGED <<approvals, proposed_at_ms, instructions>>
                /\ root_instructions' =
                     SetKeyValue(root_instructions, instructions_hash, instrs)
                /\ root_proposed_at_ms' =
                     SetKeyValue(root_proposed_at_ms, instructions_hash, curr_block)
                /\ root_approvals' =
                     SetKeyValue(root_approvals, instructions_hash,
                                 approvals_of_proposal(authority))
                /\ verdict' = Passed("propose on root", instructions_hash, FALSE)
        /\ UNCHANGED <<role_holders, quorum, transaction_ttl_ms, key, curr_block,
                       root_key>>
        /\ UNCHANGED <<queue, txs, now, committed, signature_check_condition, last,
                       threads, wasm, runtime, merkle, triggers>>

\* MultisigApprove on the root: visit (lines 95-115), then execute (lines 117-225)
MultisigApprove_root(authority, instructions_hash) ==
    /\ IF authority \notin root_role
       THEN /\ verdict' = Denied("approve on root", instructions_hash,
                                 "role not found")
            /\ UNCHANGED root
       ELSE IF instructions_hash \notin DOMAIN root_approvals
       THEN /\ verdict' = Denied("approve on root", instructions_hash,
                                 "no proposals to approve")
            /\ UNCHANGED root
       ELSE LET apprs == root_approvals[instructions_hash] \cup {authority}
                authenticated ==
                    root_quorum <= sum(root_signatories,
                                       {id \in DOMAIN root_signatories : id \in apprs})
                expired ==
                    saturating_add(root_proposed_at_ms[instructions_hash],
                                   root_transaction_ttl_ms) < curr_block
            IN  IF authenticated \/ expired
                THEN /\ root_approvals' =
                          RemoveKeyValue(root_approvals, instructions_hash)
                     /\ root_proposed_at_ms' =
                          RemoveKeyValue(root_proposed_at_ms, instructions_hash)
                     /\ root_instructions' =
                          RemoveKeyValue(root_instructions, instructions_hash)
                     /\ root_key' = IF ~expired
                                    THEN root_instructions[instructions_hash][1]
                                    ELSE root_key
                     /\ verdict' = Passed("approve on root", instructions_hash,
                                          ~expired)
                ELSE /\ root_approvals' =
                          SetKeyValue(root_approvals, instructions_hash, apprs)
                     /\ UNCHANGED <<root_proposed_at_ms, root_instructions, root_key>>
                     /\ verdict' = Passed("approve on root", instructions_hash, FALSE)
    /\ UNCHANGED <<approvals, proposed_at_ms, instructions, role_holders, quorum,
                   transaction_ttl_ms, key, curr_block>>
    /\ UNCHANGED <<queue, txs, now, committed, signature_check_condition, last,
                   threads, wasm, runtime, merkle, triggers>>

\* both multisig accounts registered, nothing proposed
InitTree ==
    /\ queue = <<>>
    /\ txs = <<>>
    /\ now = 0
    /\ committed = {}
    /\ signature_check_condition = "any"
    /\ last = NoCall
    /\ InitThreads
    /\ NoWasm
    /\ NoRuntime
    /\ NoMerkle
    /\ NoBlock
    /\ custom = NoCustom
    /\ approvals = <<>>
    /\ proposed_at_ms = <<>>
    /\ instructions = <<>>
    /\ role_holders = DOMAIN signatories
    /\ quorum \in Quorums
    /\ transaction_ttl_ms = U64_MAX
    /\ key = "none"
    /\ curr_block = 0
    /\ verdict = NoVerdict
    /\ NoRoot

ProposeRoot == \E authority \in Accounts, instrs \in InstructionLists :
                   MultisigPropose_root(authority, instrs) /\ UNCHANGED custom
ApproveRoot == \E authority \in Accounts, h \in InstructionHashes :
                   MultisigApprove_root(authority, h) /\ UNCHANGED custom
\* a signatory of the multisig account approves the proposal derived from
\* the root's proposal of hash h
ApproveDerived(authority, h) ==
    /\ MultisigApprove(authority, HashOf(<<approve_me(msa_012345, h)>>))
    /\ UNCHANGED custom
ApproveLeaf == \E authority \in Accounts, h \in InstructionHashes :
                   ApproveDerived(authority, h)

NextTree == ProposeRoot \/ ApproveRoot \/ ApproveLeaf \/ NewBlock

\* every signatory of the multisig account goes on approving
SpecTree ==
    /\ InitTree
    /\ [][NextTree]_vars
    /\ \A authority \in DOMAIN signatories, h \in InstructionHashes :
          WF_vars(ApproveDerived(authority, h))

(***************************************************************************)
(* Properties of the queue under sequential use.                           *)
(***************************************************************************)
\* the position of h in the ring (h occurs in q)
IndexOf(q, h) == CHOOSE i \in DOMAIN q : q[i] = h /\ \A j \in 1..(i - 1) : q[j] # h
\* the admission rules of push other than Full, stated on the state
Admissible(h, sigs) ==
    /\ ~(creation_time(h) > now + future_threshold)
    /\ ~(now > creation_time(h) + ttl)
    /\ h \notin committed
    /\ IF signature_check_condition = "any" THEN sigs # {} ELSE sigs = Keys

\* C1 (as stated): a second push of a hash whose first push was just
\* admitted returns Ok and leaves one map entry and one ring handle holding
\* the union of the signatures.
C1_SecondPushAlwaysMerges ==
    [][\A h \in Hashes, sigs \in SigSets :
        (last.op = "push" /\ last.res = "Ok" /\ last.hash = h /\ push(h, sigs))
        => /\ last'.res = "Ok"
           /\ h \in DOMAIN txs' /\ txs'[h] = txs[h] \cup sigs
           /\ Count(queue', h) = 1]_vars

\* C1 (amended): a second push of a pending hash that passes the admission
\* rules while the map holds fewer than max_txs entries returns Ok, keeps
\* one map entry and one ring handle for the hash and stores the union of
\* the signatures; with max_txs entries in the map it is rejected as Full
\* and nothing is merged.
C1_SecondPushMerges ==
    [][\A h \in Hashes, sigs \in SigSets :
        (/\ last'.op = "push" /\ last'.hash = h
         /\ h \in DOMAIN txs /\ Admissible(h, sigs) /\ push(h, sigs))
        => IF Cardinality(DOMAIN txs) < max_txs
           THEN /\ last'.res = "Ok"
                /\ DOMAIN txs' = DOMAIN txs
                /\ txs' = [txs EXCEPT ![h] = txs[h] \cup sigs]
                /\ queue' = queue /\ Count(queue', h) = 1
           ELSE last'.res = "Full" /\ txs' = txs /\ queue' = queue]_vars

\* a second submission was merged: only a merge stores two signatures
C1_Witness ==
    /\ last.op = "push" /\ last.res = "Ok"
    /\ last.hash \in DOMAIN txs /\ txs[last.hash] = Keys
    /\ Count(queue, last.hash) = 1

\* C2: push returns the error of the first failing rule in the order
\* InFuture, Expired, InBlockchain, SignatureCondition, Full.
FirstFailingRule(h, sigs) ==
    IF creation_time(h) > now + future_threshold THEN "InFuture"
    ELSE IF now > creation_time(h) + ttl THEN "Expired"
    ELSE IF h \in committed THEN "InBlockchain"
    ELSE IF ~(IF signature_check_condition = "any" THEN sigs # {} ELSE sigs = Keys)
         THEN "SignatureCondition"
    ELSE IF Cardinality(DOMAIN txs) >= max_txs THEN "Full"
    ELSE "Ok"

C2_RejectionOrder ==
    [][\A h \in Hashes, sigs \in SigSets :
        (last'.op = "push" /\ last'.hash = h /\ push(h, sigs))
        => last'.res = FirstFailingRule(h, sigs)]_vars

\* InFuture is returned although every later rule fails as well
C2_Witness ==
    /\ last.op = "push" /\ last.res = "InFuture"
    /\ last.hash \in committed
    /\ signature_check_condition = "all"
    /\ Cardinality(DOMAIN txs) >= max_txs

\* C3 (as stated): a pending transaction that is neither expired nor
\* committed and whose signature condition fails is not returned by
\* get_transactions_for_block and stays in the map and in the ring.
C3_UnsignedIsKept ==
    [][(last'.op = "get" /\ get_transactions_for_block) =>
        \A h \in DOMAIN txs :
            (is_pending(h) /\ ~check_signature_condition(txs[h]))
            => /\ h \notin OutHashes(last'.out)
               /\ h \in DOMAIN txs'
               /\ h \in Range(queue')]_vars

\* C4 (as stated): a returned transaction stays in the queue, the queue
\* drops only expired or committed transactions, and two consecutive calls
\* return the same transactions when the pending ones fit in one block.
C4_OnlyExpiredOrCommittedDropped ==
    [][(last'.op = "get" /\ get_transactions_for_block) =>
        /\ \A h \in OutHashes(last'.out) : h \in DOMAIN txs' /\ h \in Range(queue')
        /\ \A h \in DOMAIN txs \ DOMAIN txs' : is_expired(h) \/ is_in_blockchain(h)
        /\ (last.op = "get" /\ Cardinality(DOMAIN txs) <= txs_in_block)
            => last'.out = last.out]_vars

\* C5: get_transactions_for_block returns no expired or committed
\* transaction, and each such transaction it pops is gone from ring and map.
C5_NoStaleReturned ==
    last.op = "get" =>
        /\ \A i \in DOMAIN last.out : is_pending(last.out[i].hash)
        /\ \A i \in DOMAIN last.popped :
              ~is_pending(last.popped[i])
              => /\ last.popped[i] \notin DOMAIN txs
                 /\ last.popped[i] \notin Range(queue)

\* a call popped a committed and an expired transaction
C5_Witness ==
    /\ last.op = "get"
    /\ \E i \in DOMAIN last.popped : is_in_blockchain(last.popped[i])
    /\ \E i \in DOMAIN last.popped : is_expired(last.popped[i])

\* C6 (as stated): with an expired transaction pending, the next
\* get_transactions_for_block strictly decreases the queue length.
C6_ExpiredAlwaysShrinks ==
    [][(last'.op = "get" /\ get_transactions_for_block /\ \E h \in DOMAIN txs : is_expired(h))
        => Cardinality(DOMAIN txs') < Cardinality(DOMAIN txs)]_vars

\* the valid transactions standing before h in the ring
ValidBefore(h) ==
    {i \in 1..(IndexOf(queue, h) - 1) :
        queue[i] \in DOMAIN txs /\ check_tx(queue[i], txs[queue[i]]) = "Ok"}

\* C6 (amended): the next get_transactions_for_block never returns an
\* expired pending transaction T and never lengthens the queue; it removes T
\* and strictly decreases the queue length when fewer than txs_in_block
\* valid transactions stand before T in the ring, and otherwise stops before
\* T and leaves it in place.
C6_ExpiredShrinksWhenReached ==
    [][(last'.op = "get" /\ get_transactions_for_block) =>
        /\ Cardinality(DOMAIN txs') <= Cardinality(DOMAIN txs)
        /\ \A h \in DOMAIN txs :
            (is_expired(h) /\ h \in Range(queue))
            => /\ h \notin OutHashes(last'.out)
               /\ IF Cardinality(ValidBefore(h)) < txs_in_block
                  THEN /\ h \notin DOMAIN txs'
                       /\ Cardinality(DOMAIN txs') < Cardinality(DOMAIN txs)
                  ELSE h \in DOMAIN txs']_vars

\* a call dropped an expired transaction and returned another one
C6_Witness ==
    /\ last.op = "get"
    /\ last.out # <<>>
    /\ \E i \in DOMAIN last.popped :
          is_expired(last.popped[i]) /\ last.popped[i] \notin DOMAIN txs

\* C8: with max_txs entries in the map, the push of one more distinct valid
\* transaction returns Full and the queue length stays max_txs.
C8_Overflow ==
    [][\A h \in Hashes, sigs \in SigSets :
        (/\ last'.op = "push" /\ last'.hash = h
         /\ Cardinality(DOMAIN txs) = max_txs
         /\ h \notin DOMAIN txs
         /\ Admissible(h, sigs)
         /\ push(h, sigs))
        => /\ last'.res = "Full"
           /\ Cardinality(DOMAIN txs') = max_txs
           /\ txs' = txs]_vars

C8_Witness ==
    /\ last.op = "push" /\ last.res = "Full"
    /\ Cardinality(DOMAIN txs) = max_txs
    /\ last.hash \notin DOMAIN txs
    /\ is_pending(last.hash) /\ ~is_in_future(last.hash)
    /\ signature_check_condition = "any"

\* C34: with max_txs entries in the map, a push that carries further
\* signatures for a pending hash and passes the rules that come before Full
\* is rejected with Full, and the signatures of the pending transaction stay
\* as they were
C34_FullBeforeMerge ==
    [][\A h \in Hashes, sigs \in SigSets :
        (/\ last'.op = "push" /\ last'.hash = h
         /\ Cardinality(DOMAIN txs) >= max_txs
         /\ h \in DOMAIN txs
         /\ ~(sigs \subseteq txs[h])
         /\ Admissible(h, sigs)
         /\ push(h, sigs))
        => /\ last'.res = "Full"
           /\ txs' = txs
           /\ queue' = queue]_vars

\* a push for a pending hash that lacks a signature was rejected as Full
C34_Witness ==
    /\ last.op = "push" /\ last.res = "Full"
    /\ Cardinality(DOMAIN txs) = max_txs
    /\ last.hash \in DOMAIN txs
    /\ txs[last.hash] # Keys
    /\ is_pending(last.hash) /\ ~is_in_future(last.hash)
    /\ signature_check_condition = "any"

\* the sequential queue with get_transactions_for_block called again and again
SpecFair == Spec /\ WF_vars(GetTransactionsForBlock)

\* h is in the map and passes check_tx
Valid(h) == h \in DOMAIN txs /\ check_tx(h, txs[h]) = "Ok"

\* C33: a pending transaction is returned by a later
\* get_transactions_for_block unless it stops being valid, however many valid
\* transactions are pending and whatever is pushed meanwhile
C33_EventuallyReturned ==
    \A h \in Hashes :
        Valid(h) ~> (~Valid(h) \/ (last.op = "get" /\ h \in OutHashes(last.out)))

\* a transaction is returned by a call after a call that did not reach it
C33_Witness ==
    /\ last.op = "get"
    /\ Len(queue) > txs_in_block
    /\ \E h \in OutHashes(last.out) : queue[Len(queue)] = h
    /\ \A h \in Range(queue) : Valid(h)

(***************************************************************************)
(* Properties of the queue under concurrent use.                           *)
(***************************************************************************)
\* C7: once the producers and the consumer have stopped and one more
\* get_transactions_for_block has run, the ring holds as many hashes as the
\* map holds entries and every hash of the ring is a key of the map.
C7_ConsistentAfterFinalGet ==
    final = "done"
    => /\ Len(queue) = Cardinality(DOMAIN txs)
       /\ Range(queue) \subseteq DOMAIN txs

\* C31: when no push is in flight, every push that has returned Ok finds its
\* hash in the map with the signatures it contributed, unless the transaction
\* has been committed since
C31_OkPushIsKept ==
    (\A q \in Producers : prod[q].pc \in {"idle", "returned"})
    => \A p \in Producers :
          (/\ prod[p].pc = "returned"
           /\ prod[p].res = "Ok"
           /\ prod[p].tx.hash \notin committed)
          => /\ prod[p].tx.hash \in DOMAIN txs
             /\ prod[p].tx.sigs \subseteq txs[prod[p].tx.hash]

\* C32: the map never holds more than max_txs entries
C32_MapWithinMaxTxs ==
    Cardinality(DOMAIN txs) <= max_txs

\* C9: a rejected push hands the submitted transaction back to its caller.
C9_RejectedPushReturnsSubmitted ==
    \A p \in Producers :
        (prod[p].pc = "returned" /\ prod[p].res \notin {"Ok", "panic"})
        => prod[p].returned = prod[p].tx

(***************************************************************************)
(* Properties of the multisig transactions.                                *)
(***************************************************************************)
\* the summed weights of the approvers that are signatories
ApproverWeight(apprs) ==
    sum(signatories, apprs \cap DOMAIN signatories)

C12_ExecutedAtMostOnce ==
    [][\A authority \in Accounts, h \in InstructionHashes :
        (/\ verdict'.op = "approve" /\ verdict'.hash = h
         /\ MultisigApprove(authority, h))
        => /\ verdict'.ran
              => /\ h \in DOMAIN approvals
                 /\ h \notin DOMAIN approvals'
                 /\ h \notin DOMAIN proposed_at_ms'
                 /\ h \notin DOMAIN instructions'
           /\ h \notin DOMAIN approvals
              => /\ verdict'.res = "Denied" /\ ~verdict'.ran
                 /\ UNCHANGED <<approvals, proposed_at_ms, instructions, key>>]_vars

\* a signatory's Approve for the hash of the proposal that was executed
\* has been denied for want of a proposal
C12_Witness ==
    /\ verdict.op = "approve" /\ verdict.res = "Denied"
    /\ verdict.msg = "no proposals to approve"
    /\ verdict.hash = HashOf(<<key>>)
    /\ key # "none"
    /\ verdict.hash \notin DOMAIN instructions

\* C13: a Propose or an Approve whose authority does not hold the signatory
\* role of the multisig account is denied and changes no proposal key and
\* nothing else of the account.
C13_RoleRequired ==
    [][\A authority \in Accounts \ role_holders :
        /\ \A instrs \in InstructionLists :
              (verdict'.op = "propose" /\ MultisigPropose(authority, instrs))
              => /\ verdict'.res = "Denied"
                 /\ UNCHANGED <<approvals, proposed_at_ms, instructions,
                                role_holders, quorum, transaction_ttl_ms, key,
                                curr_block>>
        /\ \A h \in InstructionHashes :
              (verdict'.op = "approve" /\ MultisigApprove(authority, h))
              => /\ verdict'.res = "Denied"
                 /\ UNCHANGED <<approvals, proposed_at_ms, instructions,
                                role_holders, quorum, transaction_ttl_ms, key,
                                curr_block>>]_vars

\* an Approve on a pending proposal was denied for want of the role
C13_Witness ==
    /\ verdict.op = "approve" /\ verdict.res = "Denied"
    /\ verdict.msg = "role not found"
    /\ verdict.hash \in DOMAIN approvals
    /\ not_signatory \notin approvals[verdict.hash]

\* C14: a Propose whose instructions hash has a pending proposal is denied
\* and leaves that proposal's instructions, proposed_at_ms and approvals as
\* they are.
C14_DuplicateProposeDenied ==
    [][\A authority \in Accounts, instrs \in InstructionLists :
        (/\ verdict'.op = "propose" /\ verdict'.hash = HashOf(instrs)
         /\ HashOf(instrs) \in DOMAIN approvals
         /\ MultisigPropose(authority, instrs))
        => /\ verdict'.res = "Denied"
           /\ UNCHANGED <<approvals, proposed_at_ms, instructions>>]_vars

\* a signatory's Propose was denied as a duplicate of a pending proposal
\* made in an earlier block and approved since
C14_Witness ==
    /\ verdict.op = "propose" /\ verdict.res = "Denied"
    /\ verdict.msg = "proposal duplicates"
    /\ verdict.hash \in DOMAIN approvals
    /\ proposed_at_ms[verdict.hash] < curr_block
    /\ Cardinality(approvals[verdict.hash]) > 1

C37_ProposeOnlyRecords ==
    [][/\ \A authority \in Accounts, instrs \in InstructionLists :
            (/\ verdict'.op = "propose" /\ verdict'.hash = HashOf(instrs)
             /\ verdict'.res = "Ok"
             /\ MultisigPropose(authority, instrs))
            => /\ DOMAIN approvals' = DOMAIN approvals \cup {HashOf(instrs)}
               /\ DOMAIN instructions' = DOMAIN approvals'
               /\ DOMAIN proposed_at_ms' = DOMAIN approvals'
               /\ instructions'[HashOf(instrs)] = instrs
               /\ proposed_at_ms'[HashOf(instrs)] = curr_block
               /\ approvals'[HashOf(instrs)] = {authority}
               /\ \A k \in DOMAIN approvals :
                      /\ approvals'[k] = approvals[k]
                      /\ instructions'[k] = instructions[k]
                      /\ proposed_at_ms'[k] = proposed_at_ms[k]
               /\ key' = key
               /\ ~verdict'.ran
       /\ key' # key => verdict'.op = "approve" /\ verdict'.ran]_vars

\* a signatory whose weight alone meets the quorum has proposed: the proposal
\* is pending with the proposer as its only approval and nothing was executed
C37_Witness ==
    /\ verdict.op = "propose" /\ verdict.res = "Ok"
    /\ verdict.hash \in DOMAIN approvals
    /\ approvals[verdict.hash] = {N_SIGNATORIES}
    /\ is_authenticated(approvals[verdict.hash])
    /\ instructions[verdict.hash] = <<"value">>
    /\ proposed_at_ms[verdict.hash] = curr_block
    /\ curr_block > 0
    /\ key = "none"

\* the weight of the distinct signatories among the accounts ids
weight_once(ids) == sum(signatories, ids \cap DOMAIN signatories)

\* C38: an Approve by a signatory who has approved the proposal already adds
\* no weight: while the proposal is short of the quorum and has not expired it
\* stays as it is and is not executed; and an Approve runs the instructions
\* only when the weights of the distinct approving signatories, each taken
\* once, reach the quorum.
C38_RepeatedApproveAddsNoWeight ==
    [][\A authority \in Accounts, h \in InstructionHashes :
        (/\ verdict'.op = "approve" /\ verdict'.hash = h /\ verdict'.res = "Ok"
         /\ MultisigApprove(authority, h))
        => /\ (/\ authority \in approvals[h]
               /\ weight_once(approvals[h]) < quorum
               /\ proposed_at_ms[h] + transaction_ttl_ms >= curr_block)
              => /\ UNCHANGED <<approvals, proposed_at_ms, instructions, key>>
                 /\ ~verdict'.ran
           /\ verdict'.ran
              => weight_once(approvals[h] \cup {authority}) >= quorum]_vars

\* the proposer, short of the quorum alone, has approved the own proposal
\* again in a later block: the approvals are still the proposer alone
C38_Witness ==
    /\ verdict.op = "approve" /\ verdict.res = "Ok" /\ ~verdict.ran
    /\ verdict.hash \in DOMAIN approvals
    /\ approvals[verdict.hash] = {N_SIGNATORIES}
    /\ weight_once(approvals[verdict.hash]) < quorum
    /\ proposed_at_ms[verdict.hash] < curr_block
    /\ key = "none"

(***************************************************************************)
(* Properties of a tree of multisig accounts.                              *)
(***************************************************************************)
\* C16: an accepted Propose of instructions I on the root, of which the
\* multisig account is a signatory, leaves on the multisig account a
\* proposal whose instructions are [Approve(root, hash(I))] and whose
\* approvals are exactly the root.
C16_ProposeDeploysDown ==
    [][\A authority \in Accounts, instrs \in InstructionLists :
        (/\ verdict'.op = "propose on root" /\ verdict'.res = "Ok"
         /\ MultisigPropose_root(authority, instrs))
        => LET derived == HashOf(<<approve_me(msa_012345, HashOf(instrs))>>)
           IN  /\ derived \in DOMAIN approvals'
               /\ derived \in DOMAIN instructions'
               /\ instructions'[derived] = <<approve_me(msa_012345, HashOf(instrs))>>
               /\ approvals'[derived] = {msa_012345}]_vars

\* C17: a proposal on the root leads to the execution of its instructions
\* once the signatories of the multisig account below go on approving the
\* derived proposal.
C17_RootExecutes ==
    \A h \in InstructionHashes :
        (h \in DOMAIN root_approvals)
        ~> (h \notin DOMAIN root_approvals /\ root_key # "none")

\* ---------------------------------------------------------------------------
\* Query-cursor hygiene of the WASM host
\* (src/crates/iroha_core/src/smartcontracts/wasm.rs)
\* ---------------------------------------------------------------------------

NumQueries == 2   \* the query ids the live-query store hands out in a run
MaxBatches == 2   \* the batches an iterable query holds after its first batch

QueryIds == 1..NumQueries

\* the WASM executions of the host: a smart contract, a trigger, an entrypoint of
\* the executor
Kinds == {"smart_contract", "trigger", "executor"}

\* how an execution leaves the guest: the guest function returns (an executor
\* entrypoint returns a pass or a denial), or the call ends in a trap
Exits(kind) ==
    IF kind = "executor" THEN {"success", "denial", "trap"} ELSE {"success", "trap"}

Requests ==
    [type : {"Start"}, remaining : 0..MaxBatches]
        \cup [type : {"Continue"}, cursor : QueryIds]

\* LiveQueryStoreHandle::drop_query
drop_query(store, query_id) ==
    [q \in DOMAIN store \ {query_id} |-> store[q]]

forget_none(store, ids) == store

\* forget_all_executed_queries: drop_query for every id of the set
forget_all_executed_queries(store, ids) ==
    [q \in DOMAIN store \ ids |-> store[q]]

\* the store keeps an iterable query under an id
insert(store, query_id, remaining) ==
    [q \in DOMAIN store \cup {query_id} |->
        IF q = query_id THEN remaining ELSE store[q]]

\* the id of the next query the store keeps: ids are unique, never used twice
next_query_id == Cardinality(issued) + 1

\* ValidQueryRequest::execute against the live-query store: Start answers the
\* first batch and, when batches remain, keeps the query and answers its cursor;
\* Continue answers the next batch of a query the store still holds (dropping
\* the query with its last batch) and not-found otherwise
execute(store, request) ==
    IF request.type = "Start"
    THEN IF request.remaining = 0
         THEN [store |-> store, res |-> "Batch", cursor |-> None]
         ELSE [store |-> insert(store, next_query_id, request.remaining),
               res |-> "Batch", cursor |-> next_query_id]
    ELSE IF request.cursor \in DOMAIN store
         THEN IF store[request.cursor] > 1
              THEN [store |-> insert(store, request.cursor, store[request.cursor] - 1),
                    res |-> "Batch", cursor |-> request.cursor]
              ELSE [store |-> drop_query(store, request.cursor),
                    res |-> "Batch", cursor |-> None]
         ELSE [store |-> store, res |-> "NotFound", cursor |-> None]

\* the store can still hand out an id for the request
CanExecute(request) ==
    (request.type = "Start" /\ request.remaining > 0) => next_query_id <= NumQueries

\* the cursor a request names
CursorOf(request) ==
    IF request.type = "Continue" THEN request.cursor ELSE None

\* ValidateQueryOperation::validate_query: the states of the executor's own
\* entrypoints pass every query; a smart contract and a trigger ask the executor
\* of the chain, whose verdict is an input
validate_query(kind, executor_verdict) ==
    IF kind = "executor" THEN "Ok" ELSE executor_verdict

\* Runtime::default_execute_query
default_execute_query(request, executor_verdict) ==
    LET continue_query_id == CursorOf(request)
        out == execute(live_query_store, request)
        continued == IF continue_query_id # None
                     THEN executed_queries \cup {continue_query_id}
                     ELSE executed_queries
    IN
    /\ specific_state # "none"
    /\ CanExecute(request)
    /\ IF validate_query(specific_state, executor_verdict) # "Ok"
       THEN /\ response' = [op |-> request.type, cursor |-> continue_query_id,
                            res |-> "Denied", by |-> specific_state]
            /\ UNCHANGED <<live_query_store, executed_queries, issued>>
       ELSE /\ live_query_store' = out.store
            /\ executed_queries' = IF out.cursor # None
                                   THEN continued \cup {out.cursor}
                                   ELSE continued
            /\ issued' = IF request.type = "Start" /\ out.cursor # None
                         THEN issued \cup {out.cursor}
                         ELSE issued
            /\ response' = [op |-> request.type,
                            cursor |-> IF request.type = "Continue"
                                       THEN continue_query_id ELSE out.cursor,
                            res |-> out.res, by |-> specific_state]
    /\ UNCHANGED <<specific_state, forgotten>>
    /\ UNCHANGED <<queue, txs, now, committed, signature_check_condition, last,
                   threads, multisig, runtime, merkle, triggers, custom>>

\* CommonState::new at the start of an execution: no query executed yet
Begin(kind) ==
    /\ specific_state = "none"
    /\ specific_state' = kind
    /\ executed_queries' = {}
    /\ response' = [op |-> "begin", cursor |-> None, res |-> "none", by |-> kind]
    /\ UNCHANGED <<live_query_store, issued, forgotten>>
    /\ UNCHANGED <<queue, txs, now, committed, signature_check_condition, last,
                   threads, multisig, runtime, merkle, triggers, custom>>

\* the end of execute_smart_contract_with_state, execute_trigger_module and
\* execute_executor_execute_internal: the error of the guest call returns through
\* `?` before the executed queries are taken and forgotten
Exit(outcome) ==
    /\ specific_state # "none"
    /\ outcome \in Exits(specific_state)
    /\ live_query_store' =
           IF outcome = "trap"
           THEN live_query_store
           ELSE forget_all_executed_queries(live_query_store, executed_queries)
    /\ forgotten' = IF outcome = "success" /\ specific_state # "executor"
                    THEN forgotten \cup (executed_queries \cap issued)
                    ELSE forgotten
    /\ executed_queries' = {}
    /\ specific_state' = "none"
    /\ response' = [op |-> "exit", cursor |-> None, res |-> outcome,
                    by |-> specific_state]
    /\ UNCHANGED issued
    /\ UNCHANGED <<queue, txs, now, committed, signature_check_condition, last,
                   threads, multisig, runtime, merkle, triggers, custom>>

\* a client of the node runs a query against the same live-query store
ClientQuery(request) ==
    LET out == execute(live_query_store, request) IN
    /\ CanExecute(request)
    /\ live_query_store' = out.store
    /\ issued' = IF request.type = "Start" /\ out.cursor # None
                 THEN issued \cup {out.cursor}
                 ELSE issued
    /\ response' = [op |-> request.type,
                    cursor |-> IF request.type = "Continue"
                               THEN request.cursor ELSE out.cursor,
                    res |-> out.res, by |-> "client"]
    /\ UNCHANGED <<executed_queries, specific_state, forgotten>>
    /\ UNCHANGED <<queue, txs, now, committed, signature_check_condition, last,
                   threads, multisig, runtime, merkle, triggers, custom>>

InitWasm ==
    /\ queue = <<>>
    /\ txs = <<>>
    /\ now = 0
    /\ committed = {}
    /\ signature_check_condition = "any"
    /\ last = NoCall
    /\ InitThreads
    /\ NoMultisig
    /\ NoWasm
    /\ NoRuntime
    /\ NoMerkle
    /\ NoBlock
    /\ custom = NoCustom

BeginExecution == \E kind \in Kinds : Begin(kind)

ExecuteQuery ==
    \E request \in Requests, executor_verdict \in {"Ok", "NotPermitted"} :
        default_execute_query(request, executor_verdict)

ExitExecution == \E outcome \in {"success", "denial", "trap"} : Exit(outcome)

Client == \E request \in Requests : ClientQuery(request)

NextWasm == BeginExecution \/ ExecuteQuery \/ ExitExecution \/ Client

SpecWasm == InitWasm /\ [][NextWasm]_vars

\* C18: every WASM execution, ending in success, in a denial or in a trap,
\* leaves none of the query ids it recorded in the live-query store
C18_ExitEvictsRecorded ==
    [][(specific_state # "none" /\ specific_state' = "none")
           => executed_queries \cap DOMAIN live_query_store' = {}]_vars

C20_ForeignCursorRefused ==
    [][(/\ specific_state # "none"
        /\ response'.op = "Continue"
        /\ response'.by = specific_state
        /\ response'.cursor \notin executed_queries)
           => response'.res \in {"Denied", "NotFound"}]_vars

\* ---------------------------------------------------------------------------
\* Stores, fuel and entrypoints of the WASM host
\* (src/crates/iroha_core/src/smartcontracts/wasm.rs)
\* ---------------------------------------------------------------------------

Fuel == 3       \* config.fuel, the budget set on a store
MaxCount == 2   \* the largest max_instruction_count a validation is run with

\* the entrypoints the host calls: a smart contract executed or validated, a
\* trigger, and the four entrypoints of the executor
Entrypoints == {"execute", "validate", "trigger", "execute_transaction",
                "execute_instruction", "validate_query", "migrate"}
\* the entrypoints of the executor that are linked to FakeSetExecutorDataModel
FakeSetExecutorDataModel ==
    {"execute_transaction", "execute_instruction", "validate_query"}
\* execute_transaction runs on the instance and store of a RuntimeFull
IsRuntimeFull(ep) == ep = "execute_transaction"

Authorities == {"alice", "bob"}
DataModels == {"genesis", "migrated"}

\* wasmtime::Trap, with the two codes the host does not name
Traps == {"StackOverflow", "MemoryOutOfBounds", "TableOutOfBounds",
          "IndirectCallToNull", "OutOfFuel", "Interrupt",
          "UnreachableCodeReached", "IntegerDivisionByZero"}
\* a wasmtime::Error is a trap, or an error raised by a host function
WasmtimeErrors == Traps \cup {"HostError"}

\* the classification of the specification: the six traps, or HostExecution
from_two_kinds(err) ==
    IF err \in {"StackOverflow", "MemoryOutOfBounds", "TableOutOfBounds",
                "IndirectCallToNull", "OutOfFuel", "Interrupt"}
    THEN "ExecutionLimitsExceeded"
    ELSE "HostExecution"

from_fuel_is_other(err) ==
    IF err \in Traps
    THEN IF err \in {"StackOverflow", "MemoryOutOfBounds", "TableOutOfBounds",
                     "IndirectCallToNull", "Interrupt"}
         THEN "ExecutionLimitsExceeded"
         ELSE "Other"
    ELSE "HostExecution"

\* impl From<wasmtime::Error> for ExportFnCallError
from(err) ==
    IF err \in Traps
    THEN IF err \in {"StackOverflow", "MemoryOutOfBounds", "TableOutOfBounds",
                     "IndirectCallToNull", "OutOfFuel", "Interrupt"}
         THEN "ExecutionLimitsExceeded"
         ELSE "Other"
    ELSE "HostExecution"

\* CommonState::new
CommonState_new(authority) == [authority |-> authority, executed_queries |-> {}]

\* LimitsExecutor::new
LimitsExecutor_new(max_instruction_count) ==
    [instruction_count |-> 0, max_instruction_count |-> max_instruction_count]

check_instruction_limits_at_max(limits) ==
    LET count == limits.instruction_count + 1 IN
    [limits |-> [limits EXCEPT !.instruction_count = count],
     res |-> IF count >= limits.max_instruction_count THEN "TooComplex" ELSE "Ok"]

\* LimitsExecutor::check_instruction_limits
check_instruction_limits(limits) ==
    LET count == limits.instruction_count + 1 IN
    [limits |-> [limits EXCEPT !.instruction_count = count],
     res |-> IF count > limits.max_instruction_count THEN "TooComplex" ELSE "Ok"]

\* Runtime::create_store: a new store around the state, with the fuel budget
create_store(state) == [data |-> state, fuel |-> Fuel]

set_store_state_in_place(state) ==
    [data |-> IF store_data = NoState THEN state
              ELSE [store_data EXCEPT !.authority = state.authority],
     fuel |-> store_fuel]

\* RuntimeFull::set_store_state: the data slot of the shared store is
\* overwritten and the fuel is set again
set_store_state(state) == [data |-> state, fuel |-> Fuel]

\* what is left of the store when the guest call is over: a Runtime drops its
\* store; a RuntimeFull keeps it, and takes the state out of the data slot only
\* after a call that returned
store_after(ep, returned) ==
    IF IsRuntimeFull(ep)
    THEN [data |-> IF returned THEN NoState ELSE store_data, fuel |-> store_fuel]
    ELSE [data |-> NoState, fuel |-> 0]

\* the host calls the entrypoint ep of a module: Runtime::execute, validate,
\* execute_trigger, execute_executor_* up to the call of the exported function
Call(ep, authority, max_instruction_count) ==
    LET state == CommonState_new(authority)
        store == IF IsRuntimeFull(ep) THEN set_store_state(state)
                 ELSE create_store(state)
    IN
    /\ entrypoint = "none"
    /\ entrypoint' = ep
    /\ store_data' = store.data
    /\ store_fuel' = store.fuel
    /\ limits_executor' = IF ep = "validate"
                          THEN LimitsExecutor_new(max_instruction_count)
                          ELSE NoLimits
    /\ executed_instructions' = 0
    /\ host' = [op |-> "call", arg |-> authority,
                res |-> IF store_data = NoState THEN "set" ELSE "replaced",
                err |-> "none", consumed |-> 0]
    /\ UNCHANGED executor_data_model
    /\ UNCHANGED <<queue, txs, now, committed, signature_check_condition, last,
                   threads, multisig, wasm, merkle, triggers, custom>>

\* the guest executes an instruction, which the store charges one unit of fuel
Run ==
    /\ entrypoint # "none"
    /\ store_fuel >= 1
    /\ store_fuel' = store_fuel - 1
    /\ host' = [op |-> "run", arg |-> "none", res |-> "none", err |-> "none",
                consumed |-> Fuel - store_fuel']
    /\ UNCHANGED <<store_data, entrypoint, limits_executor, executed_instructions,
                   executor_data_model>>
    /\ UNCHANGED <<queue, txs, now, committed, signature_check_condition, last,
                   threads, multisig, wasm, merkle, triggers, custom>>

\* the store after a host function has panicked or the guest call has failed
Aborted(op, arg, res, err) ==
    LET store == store_after(entrypoint, FALSE) IN
    /\ entrypoint' = "none"
    /\ store_data' = store.data
    /\ store_fuel' = store.fuel
    /\ host' = [op |-> op, arg |-> arg, res |-> res, err |-> err,
                consumed |-> Fuel - store_fuel]

\* the entrypoints of the executor whose state implements
\* ExecuteOperationsAsExecutorMut
ExecuteOperationsAsExecutorMut ==
    {"execute_transaction", "execute_instruction", "migrate"}

default_execute_instruction_everywhere(ep) == "Executor::execute_instruction"

\* what the host function execute_instruction hands the instruction to: for a
\* smart contract or a trigger default_execute_instruction, which calls the
\* executor of the world; for the executor Instruction::execute on the state
execute_instruction_by(ep) ==
    IF ep \in ExecuteOperationsAsExecutorMut
    THEN "Instruction::execute"
    ELSE "Executor::execute_instruction"

\* the host function execute_instruction, called by the guest; NotPermitted is
\* a verdict of the executor, which Instruction::execute does not give
execute_instruction(instruction_result) ==
    /\ entrypoint # "none"
    /\ store_fuel >= 1
    /\ instruction_result = "NotPermitted"
           => execute_instruction_by(entrypoint) = "Executor::execute_instruction"
    /\ IF entrypoint = "validate_query"
       THEN /\ Aborted("execute_instruction", None, "panic", "none")
            /\ UNCHANGED <<limits_executor, executed_instructions>>
       ELSE LET checked == IF limits_executor # NoLimits
                           THEN check_instruction_limits(limits_executor)
                           ELSE [limits |-> NoLimits, res |-> "Ok"]
            IN
            /\ limits_executor' = checked.limits
            /\ executed_instructions' = IF checked.res = "Ok"
                                        THEN executed_instructions + 1
                                        ELSE executed_instructions
            /\ store_fuel' = store_fuel - 1
            /\ host' = [op |-> "execute_instruction",
                        arg |-> IF checked.res = "Ok"
                                THEN execute_instruction_by(entrypoint)
                                ELSE "none",
                        res |-> IF checked.res = "Ok" THEN instruction_result
                                ELSE checked.res,
                        err |-> "none", consumed |-> Fuel - store_fuel']
            /\ UNCHANGED <<store_data, entrypoint>>
    /\ UNCHANGED executor_data_model
    /\ UNCHANGED <<queue, txs, now, committed, signature_check_condition, last,
                   threads, multisig, wasm, merkle, triggers, custom>>

\* the host function execute_query records the id of the query in the state
record_query(query_id) ==
    /\ entrypoint # "none"
    /\ store_fuel >= 1
    /\ store_fuel' = store_fuel - 1
    /\ store_data' = [store_data EXCEPT !.executed_queries = @ \cup {query_id}]
    /\ host' = [op |-> "execute_query", arg |-> query_id, res |-> "Ok",
                err |-> "none", consumed |-> Fuel - store_fuel']
    /\ UNCHANGED <<entrypoint, limits_executor, executed_instructions,
                   executor_data_model>>
    /\ UNCHANGED <<queue, txs, now, committed, signature_check_condition, last,
                   threads, multisig, wasm, merkle, triggers, custom>>

set_data_model_anywhere(ep) == TRUE

\* the entrypoint whose set_data_model sets the data model
set_data_model_allowed(ep) == ep = "migrate"

\* the host function set_data_model, called by an entrypoint of the executor
set_data_model(data_model) ==
    /\ entrypoint \in FakeSetExecutorDataModel \cup {"migrate"}
    /\ store_fuel >= 1
    /\ IF set_data_model_allowed(entrypoint)
       THEN /\ executor_data_model' = data_model
            /\ store_fuel' = store_fuel - 1
            /\ host' = [op |-> "set_data_model", arg |-> data_model, res |-> "Ok",
                        err |-> "none", consumed |-> Fuel - store_fuel']
            /\ UNCHANGED <<store_data, entrypoint>>
       ELSE /\ Aborted("set_data_model", data_model, "panic", "none")
            /\ UNCHANGED executor_data_model
    /\ UNCHANGED <<limits_executor, executed_instructions>>
    /\ UNCHANGED <<queue, txs, now, committed, signature_check_condition, last,
                   threads, multisig, wasm, merkle, triggers, custom>>

\* the exported function returns
ReturnCall ==
    LET store == store_after(entrypoint, TRUE) IN
    /\ entrypoint # "none"
    /\ entrypoint' = "none"
    /\ store_data' = store.data
    /\ store_fuel' = store.fuel
    /\ host' = [op |-> "exit", arg |-> entrypoint, res |-> "Ok", err |-> "none",
                consumed |-> Fuel - store_fuel]
    /\ UNCHANGED <<limits_executor, executed_instructions, executor_data_model>>
    /\ UNCHANGED <<queue, txs, now, committed, signature_check_condition, last,
                   threads, multisig, wasm, merkle, triggers, custom>>

\* the call of the exported function fails with a wasmtime error; the store
\* raises OutOfFuel when an instruction is due and no fuel is left
Fail(err) ==
    /\ entrypoint # "none"
    /\ err = "OutOfFuel" <=> store_fuel = 0
    /\ Aborted("exit", entrypoint, from(err), err)
    /\ UNCHANGED <<limits_executor, executed_instructions, executor_data_model>>
    /\ UNCHANGED <<queue, txs, now, committed, signature_check_condition, last,
                   threads, multisig, wasm, merkle, triggers, custom>>

InitRuntime ==
    /\ queue = <<>>
    /\ txs = <<>>
    /\ now = 0
    /\ committed = {}
    /\ signature_check_condition = "any"
    /\ last = NoCall
    /\ InitThreads
    /\ NoMultisig
    /\ NoWasm
    /\ NoRuntime
    /\ NoMerkle
    /\ NoBlock
    /\ custom = NoCustom

CallEntrypoint ==
    \E ep \in Entrypoints, authority \in Authorities, max \in 1..MaxCount :
        /\ (ep # "validate" => max = 1)
        /\ Call(ep, authority, max)

ExecuteInstruction ==
    \E instruction_result \in {"Ok", "NotPermitted"} :
        execute_instruction(instruction_result)

RecordQuery == \E query_id \in QueryIds : record_query(query_id)

SetDataModel == \E data_model \in DataModels : set_data_model(data_model)

FailCall == \E err \in WasmtimeErrors : Fail(err)

NextRuntime ==
    CallEntrypoint \/ Run \/ ExecuteInstruction \/ RecordQuery \/ SetDataModel
        \/ ReturnCall \/ FailCall

SpecRuntime == InitRuntime /\ [][NextRuntime]_vars

\* C21: every execute_transaction call on the reused instance starts with the
\* fuel of the store set to the budget and with the data slot holding the fresh
\* state of this call (its authority, no executed query), whatever an earlier
\* call, returned or failed, has left in the store
C21_ReuseStartsFresh ==
    [][(entrypoint = "none" /\ entrypoint' = "execute_transaction")
           => /\ store_fuel' = Fuel
              /\ store_data' = CommonState_new(host'.arg)]_vars

C21_Witness ==
    /\ entrypoint = "execute_transaction"
    /\ host.op = "call"
    /\ host.res = "replaced"
    /\ store_fuel = Fuel
    /\ store_data.executed_queries = {}

\* C22 (as stated): an error of the guest call is ExecutionLimitsExceeded when
\* it is one of the six limit traps and HostExecution in every other case
C22_TwoKinds ==
    (host.op = "exit" /\ host.err # "none")
        => host.res = IF host.err \in {"StackOverflow", "MemoryOutOfBounds",
                                       "TableOutOfBounds", "IndirectCallToNull",
                                       "OutOfFuel", "Interrupt"}
                      THEN "ExecutionLimitsExceeded"
                      ELSE "HostExecution"

\* C22 (amended): an error of the guest call is ExecutionLimitsExceeded when it
\* is one of the six limit traps, Other when it is any other trap, and
\* HostExecution when it is not a trap
C22_TrapTaxonomy ==
    (host.op = "exit" /\ host.err # "none")
        => host.res = IF host.err \in {"StackOverflow", "MemoryOutOfBounds",
                                       "TableOutOfBounds", "IndirectCallToNull",
                                       "OutOfFuel", "Interrupt"}
                      THEN "ExecutionLimitsExceeded"
                      ELSE IF host.err \in Traps THEN "Other"
                      ELSE "HostExecution"

C22_Witness ==
    /\ host.op = "exit"
    /\ host.err = "UnreachableCodeReached"
    /\ host.res = "Other"

\* C23 (as stated): an execution with the budget Fuel succeeds having consumed
\* at most Fuel, or fails with ExecutionLimitsExceeded; nothing else
C23_TwoOutcomes ==
    host.op = "exit"
        => \/ host.res = "Ok" /\ host.consumed <= Fuel
           \/ host.res = "ExecutionLimitsExceeded"

\* C23 (amended): an execution with the budget Fuel never consumes more than
\* Fuel; it succeeds, or fails with ExecutionLimitsExceeded, Other or
\* HostExecution, and a failure for lack of fuel is ExecutionLimitsExceeded
C23_FuelOutcomes ==
    host.op = "exit"
        => /\ host.consumed <= Fuel
           /\ host.res \in {"Ok", "ExecutionLimitsExceeded", "Other", "HostExecution"}
           /\ host.res = "Ok" => host.err = "none"
           /\ host.err = "OutOfFuel"
                  => host.res = "ExecutionLimitsExceeded" /\ host.consumed = Fuel

C23_Witness ==
    /\ host.op = "exit"
    /\ host.err = "OutOfFuel"
    /\ host.res = "ExecutionLimitsExceeded"
    /\ host.consumed = Fuel

C36_ChildReentersExecutor ==
    (/\ host.op = "execute_instruction"
     /\ entrypoint \in {"execute_transaction", "execute_instruction"})
    => host.arg = "Executor::execute_instruction"

\* C36 (amended): an instruction submitted by an entrypoint of the executor
\* (execute_transaction, execute_instruction, migrate) is executed on the state
\* directly, and is never answered with the executor's NotPermitted; only an
\* instruction submitted by a smart contract or a trigger, and not stopped by
\* the instruction limit, is handed to the executor.
C36_ExecutorExecutesDirectly ==
    [][host'.op = "execute_instruction" /\ host'.res # "panic"
       => /\ entrypoint \in {"execute_transaction", "execute_instruction",
                             "migrate"}
             => /\ host'.arg = "Instruction::execute"
                /\ host'.res # "NotPermitted"
          /\ entrypoint \in {"execute", "validate", "trigger"}
             => \/ host'.arg = "Executor::execute_instruction"
                \/ host'.res = "TooComplex"]_vars

C36_Witness ==
    /\ host.op = "execute_instruction"
    /\ entrypoint = "execute_transaction"
    /\ host.arg = "Instruction::execute"
    /\ host.res = "Ok"
    /\ executed_instructions = 2

(***************************************************************************)
(* The Merkle tree of src/crypto/src/merkle.rs.  A hash is a byte string;  *)
(* the model writes <<"b", n>> for the string whose every byte is n (the   *)
(* prehashed leaves of the tests), <<"h", x>> for Hash::new of the string  *)
(* x, and <<"s", {x, y}>> for the byte-wise sum of two strings that are    *)
(* not both of the first form.  Hash::new is taken injective.              *)
(***************************************************************************)
MaxLeaves == 5
NumHashes == 3
USIZE_MAX == 63
U8_MAX == 255

HashBytes == 1..NumHashes
Builds == {"debug", "release"}

RECURSIVE SeqsUpTo(_)
SeqsUpTo(n) ==
    IF n = 0 THEN {<<>>}
    ELSE LET shorter == SeqsUpTo(n - 1)
         IN  shorter \cup {Append(s, b) : s \in {t \in shorter : Len(t) = n - 1}, b \in HashBytes}

Inputs == SeqsUpTo(MaxLeaves)

\* Hash::prehashed([n; LENGTH])
prehashed(n) == <<"b", n>>

\* Hash::zeroed
zeroed == <<"b", 0>>

\* Hash::new
Hash_new(bytes) == <<"h", bytes>>

\* u8::saturating_add
u8_saturating_add(l, r) == IF l + r > U8_MAX THEN U8_MAX ELSE l + r

\* the zip of nodes_pair_hash: l.saturating_add(*r) on every byte
bytewise_saturating_add(l, r) ==
    IF l[1] = "b" /\ r[1] = "b" THEN <<"b", u8_saturating_add(l[2], r[2])>>
    ELSE IF l[1] = "b" /\ l[2] = 0 THEN r
    ELSE IF r[1] = "b" /\ r[2] = 0 THEN l
    ELSE <<"s", {l, r}>>

\* Node::Leaf
Leaf(h) == [kind |-> "Leaf", hash |-> h, left |-> <<>>, right |-> <<>>]

\* Node::hash
hash(node) == IF node.kind = "Empty" THEN zeroed ELSE node.hash

\* Node::nodes_pair_hash
nodes_pair_hash(l, r) == Hash_new(bytewise_saturating_add(hash(l), hash(r)))

\* Node::from_nodes
from_nodes(left, right) ==
    [kind |-> "Subtree", hash |-> nodes_pair_hash(left, right), left |-> left, right |-> right]

\* the input as the iterator yields it, unsorted
unsorted(seq) == seq

\* hashes.sort_unstable()
sort_unstable(seq) == SortSeq(seq, LAMBDA a, b : a < b)

\* the while loop of from_iter: two nodes leave the front, their parent joins the back
RECURSIVE pair_up(_)
pair_up(nodes) ==
    IF Len(nodes) <= 1 THEN nodes
    ELSE pair_up(Append(Tail(Tail(nodes)), from_nodes(nodes[1], nodes[2])))

\* MerkleTree::from_iter
from_iter(seq) ==
    LET sorted == sort_unstable(seq)
        leaves_ == [i \in 1..Len(sorted) |-> Leaf(prehashed(sorted[i]))]
        padded == IF Len(leaves_) % 2 = 0 THEN leaves_ ELSE Append(leaves_, Empty)
        nodes == pair_up(padded)
    IN  IF nodes = <<>> THEN Empty ELSE nodes[1]

\* MerkleTree::root_hash
root_hash(node) == hash(node)

\* idx - seen in usize: a debug build panics below zero, a release build wraps
wrapping_sub(idx, seen) == IF idx >= seen THEN idx - seen ELSE idx - seen + USIZE_MAX + 1

\* Node::get_leaf_inner
RECURSIVE get_leaf_inner(_, _, _)
get_leaf_inner(node, idx, build) ==
    IF node.kind = "Leaf" /\ idx = 0 THEN <<"Ok", node.hash>>
    ELSE IF node.kind = "Subtree"
    THEN LET l == get_leaf_inner(node.left, idx, build)
         IN  IF l[1] # "Err" THEN l
             ELSE IF idx < l[2] /\ build = "debug" THEN <<"panic">>
             ELSE LET r == get_leaf_inner(node.right, wrapping_sub(idx, l[2]), build)
                  IN  IF r[1] = "Err" THEN <<"Err", r[2] + l[2]>> ELSE r
    ELSE <<"Err", 1>>

\* MerkleTree::get_leaf
get_leaf(node, idx, build) ==
    LET r == get_leaf_inner(node, idx, build)
    IN  IF r[1] = "Err" THEN <<"None">> ELSE r

\* MerkleTree::leaves: get_leaf(0), get_leaf(1), ... up to the first None
RECURSIVE leaves_from(_, _, _)
leaves_from(node, i, build) ==
    LET r == get_leaf(node, i, build)
    IN  IF r[1] = "Ok"
        THEN LET rest == leaves_from(node, i + 1, build)
             IN  IF rest = <<<<"panic">>>> THEN rest ELSE <<r[2]>> \o rest
        ELSE IF r[1] = "panic" THEN <<r>>
        ELSE <<>>

leaves(node, build) == leaves_from(node, 0, build)

\* the input hashes in ascending order
Ascending(seq) == LET s == SortSeq(seq, LAMBDA a, b : a < b)
                  IN  [i \in 1..Len(s) |-> prehashed(s[i])]

\* a tree is collected from the same hashes, two neighbours swapped
Collect(i) ==
    /\ i \in 1..(Len(hashes) - 1)
    /\ hashes[i] # hashes[i + 1]
    /\ hashes' = [hashes EXCEPT ![i] = hashes[i + 1], ![i + 1] = hashes[i]]
    /\ root_node' = from_iter(hashes')
    /\ got' = [op |-> "from_iter", idx |-> i, build |-> "none",
               res |-> <<"Ok", root_hash(root_node')>>]
    /\ UNCHANGED <<queue, txs, now, committed, signature_check_condition, last,
                   threads, multisig, wasm, runtime, triggers, custom>>

GetLeaf(idx, build) ==
    /\ got' = [op |-> "get_leaf", idx |-> idx, build |-> build,
               res |-> get_leaf(root_node, idx, build)]
    /\ UNCHANGED <<queue, txs, now, committed, signature_check_condition, last,
                   threads, multisig, wasm, runtime, hashes, root_node, triggers, custom>>

Leaves(build) ==
    /\ got' = [op |-> "leaves", idx |-> 0, build |-> build,
               res |-> leaves(root_node, build)]
    /\ UNCHANGED <<queue, txs, now, committed, signature_check_condition, last,
                   threads, multisig, wasm, runtime, hashes, root_node, triggers, custom>>

InitMerkle ==
    /\ queue = <<>>
    /\ txs = <<>>
    /\ now = 0
    /\ committed = {}
    /\ signature_check_condition = "any"
    /\ last = NoCall
    /\ InitThreads
    /\ NoMultisig
    /\ NoWasm
    /\ NoRuntime
    /\ hashes \in Inputs
    /\ root_node = from_iter(hashes)
    /\ got = NoGot
    /\ NoBlock
    /\ custom = NoCustom

CollectPermuted == \E i \in 1..MaxLeaves : Collect(i)
ReadLeaf == \E idx \in 0..MaxLeaves, build \in Builds : GetLeaf(idx, build)
ReadLeaves == \E build \in Builds : Leaves(build)

NextMerkle ==
    \/ CollectPermuted
    \/ ReadLeaf
    \/ ReadLeaves

SpecMerkle == InitMerkle /\ [][NextMerkle]_vars

\* C26: a tree collected from the same hashes in another order has the same
\* root hash
C26_RootIgnoresOrder ==
    [][(hashes' # hashes /\ Ascending(hashes') = Ascending(hashes))
          => root_hash(root_node') = root_hash(root_node)]_vars

C26_Witness ==
    /\ Len(hashes) = 5
    /\ hashes[1] > hashes[2]
    /\ hashes[5] < hashes[1]
    /\ Ascending(hashes) = Ascending(<<1, 2, 2, 3, 3>>)
    /\ got.op = "from_iter"
    /\ got.res = <<"Ok", root_hash(from_iter(<<1, 2, 2, 3, 3>>))>>

\* C27: for a tree built from n hashes, get_leaf(i) returns the i-th smallest
\* hash for every i < n and None for every i >= n, and leaves() yields the
\* input hashes in ascending order
C27_GetLeafInOrder ==
    /\ got.op = "get_leaf"
         => IF got.idx < Len(hashes)
            THEN got.res = <<"Ok", Ascending(hashes)[got.idx + 1]>>
            ELSE got.res = <<"None">>
    /\ got.op = "leaves" => got.res = Ascending(hashes)

\* C28: a tree built from a different multiset of leaf hashes has a different
\* root hash
C28_DifferentRoots ==
    \A other \in Inputs :
        Ascending(other) # Ascending(hashes)
            => root_hash(from_iter(other)) # root_hash(root_node)

\* get_leaf_inner comes to compute idx - seen with idx < seen (line 171)
RECURSIVE underflows(_, _)
underflows(node, idx) ==
    /\ node.kind = "Subtree"
    /\ LET l == get_leaf_inner(node.left, idx, "release")
       IN  \/ underflows(node.left, idx)
           \/ /\ l[1] = "Err"
              /\ \/ idx < l[2]
                 \/ underflows(node.right, wrapping_sub(idx, l[2]))

\* C40: on a tree built from any list of hashes get_leaf(idx) returns for
\* every idx without a panic and without an underflow of idx - seen, with None
\* when idx is not below the number of leaves; leaves(), which calls it, does
\* not panic either.
C40_GetLeafTotal ==
    /\ got.op = "get_leaf"
         => /\ got.res # <<"panic">>
            /\ ~underflows(root_node, got.idx)
            /\ got.idx >= Len(hashes) => got.res = <<"None">>
    /\ got.op = "leaves" => got.res # <<<<"panic">>>>

(***************************************************************************)
(* The execution of a block with one data trigger installed, as in the     *)
(* scenario of tests/triggers/data_trigger.rs: the trigger                  *)
(* mint_roses_on_carol_creation mints two roses for carol when her account *)
(* is created.                                                              *)
(***************************************************************************)
MaxBlockTxs == 3

\* the instructions submitted in the scenario, one per transaction
Transactions == {"register_carol", "register_dave", "burn_rose"}

RECURSIVE BlocksUpTo(_)
BlocksUpTo(n) ==
    IF n = 0 THEN {<<>>}
    ELSE LET shorter == BlocksUpTo(n - 1)
         IN  shorter \cup {Append(b, t) : b \in {c \in shorter : Len(c) = n - 1}, t \in Transactions}

Blocks == BlocksUpTo(MaxBlockTxs) \ {<<>>}

\* AccountEventFilter::new().for_account(carol).for_events(AccountEventSet::Created)
matches(event) == event = <<"AccountCreated", "carol">>

Rejected(w) == [ok |-> FALSE, world |-> w, events |-> <<>>]

\* Register::account(Account::new(account))
register_account(w, account) ==
    IF account \in w.accounts THEN Rejected(w)
    ELSE [ok |-> TRUE, world |-> [w EXCEPT !.accounts = @ \cup {account}],
          events |-> <<<<"AccountCreated", account>>>>]

\* Burn::asset_numeric(1, rose_carol)
burn_rose(w) ==
    IF "carol" \notin w.accounts \/ w.roses < 1 THEN Rejected(w)
    ELSE [ok |-> TRUE, world |-> [w EXCEPT !.roses = @ - 1],
          events |-> <<<<"AssetChanged", "carol">>>>]

\* Mint::asset_numeric(2, rose_carol), the executable of the trigger
mint_roses(w) ==
    IF "carol" \notin w.accounts THEN Rejected(w)
    ELSE [ok |-> TRUE, world |-> [w EXCEPT !.roses = @ + 2],
          events |-> <<<<"AssetChanged", "carol">>>>]

\* a transaction applied to the snapshot: its new state and its batch of events
apply(w, tx) ==
    IF tx = "register_carol" THEN register_account(w, "carol")
    ELSE IF tx = "register_dave" THEN register_account(w, "dave")
    ELSE burn_rose(w)

\* the next transaction starts with events of the last one still undelivered
delivered_whenever(batch) == TRUE

\* the next transaction starts when the trigger engine has seen the whole batch
delivered(batch) == batch = <<>>

\* one transaction of the block is executed and committed to the snapshot
ExecuteTransaction ==
    /\ tx_index < Len(block)
    /\ delivered(events)
    /\ LET r == apply(world, block[tx_index + 1])
       IN  /\ world' = r.world
           /\ events' = events \o r.events
           /\ executed' = Append(executed, <<"transaction", tx_index + 1, r.ok>>)
    /\ tx_index' = tx_index + 1
    /\ UNCHANGED <<queue, txs, now, committed, signature_check_condition, last,
                   threads, multisig, wasm, runtime, merkle, block, custom>>

\* the trigger engine takes one event; a match runs the trigger's executable
ExecuteDataTrigger ==
    /\ events # <<>>
    /\ IF matches(Head(events))
       THEN LET r == mint_roses(world)
            IN  /\ world' = r.world
                /\ events' = Tail(events) \o r.events
                /\ executed' = Append(executed, <<"trigger", tx_index, r.ok>>)
       ELSE /\ events' = Tail(events)
            /\ UNCHANGED <<world, executed>>
    /\ UNCHANGED <<queue, txs, now, committed, signature_check_condition, last,
                   threads, multisig, wasm, runtime, merkle, block, tx_index, custom>>

InitTriggers ==
    /\ queue = <<>>
    /\ txs = <<>>
    /\ now = 0
    /\ committed = {}
    /\ signature_check_condition = "any"
    /\ last = NoCall
    /\ InitThreads
    /\ NoMultisig
    /\ NoWasm
    /\ NoRuntime
    /\ NoMerkle
    /\ block \in Blocks
    /\ tx_index = 0
    /\ world = Genesis
    /\ events = <<>>
    /\ executed = <<>>
    /\ custom = NoCustom

NextTriggers ==
    \/ ExecuteTransaction
    \/ ExecuteDataTrigger

SpecTriggers == InitTriggers /\ [][NextTriggers]_vars

\* the positions of the log where transaction i and the triggers it caused are
PositionOf(i) == CHOOSE k \in 1..Len(executed) : executed[k] = <<"transaction", i, TRUE>>

C30_RepushHasRoom ==
    cons.pc = "repush" => Len(queue) < max_txs

(***************************************************************************)
(* The dispatch of a Custom instruction by the default executor            *)
(* (default_executor/src/lib.rs, visit_custom).                            *)
(***************************************************************************)
\* the payloads of a Custom instruction: the three multisig instructions and
\* one that MultisigInstructionBox::try_from does not parse
Payloads == {"Register", "Propose", "Approve", "unparsable"}

\* lib.rs line 45: MultisigInstructionBox::try_from(isi.payload()) is Ok
parses(payload) == payload # "unparsable"

\* lib.rs line 48, reached after visit_multisig has returned: deny!(executor,
\* "Failed to parse custom instruction"); with debug assertions the macro
\* first tests the verdict (iroha_executor lib.rs 113-123)
deny_failed_to_parse(handler, build) ==
    IF build = "debug" /\ handler.res = "Denied"
    THEN [payload |-> "parsed", build |-> build, res |-> "panic",
          msg |-> "Executor already denied"]
    ELSE [payload |-> "parsed", build |-> build, res |-> "Denied",
          msg |-> "Failed to parse custom instruction"]

\* lib.rs lines 72-73: visit_multisig_propose and visit_multisig_approve have
\* empty bodies; the verdict stays as the executor was built
visit_multisig_stub(op) ==
    /\ verdict' = Passed(op, None, FALSE)
    /\ UNCHANGED <<approvals, proposed_at_ms, instructions, role_holders, quorum,
                   transaction_ttl_ms, key, curr_block>>
    /\ UNCHANGED <<queue, txs, now, committed, signature_check_condition, last,
                   threads, root, wasm, runtime, merkle, triggers>>

\* lib.rs lines 51-57: visit_multisig
visit_multisig(authority, payload, q, t) ==
    IF payload = "Register" THEN MultisigRegister(authority, q, t)
    ELSE IF payload = "Propose" THEN visit_multisig_stub("propose")
    ELSE visit_multisig_stub("approve")

\* lib.rs lines 44-49: visit_custom
visit_custom(authority, payload, q, t, build) ==
    IF parses(payload)
    THEN /\ visit_multisig(authority, payload, q, t)
         /\ custom' = [deny_failed_to_parse(verdict', build) EXCEPT !.payload = payload]
    ELSE /\ custom' = [payload |-> payload, build |-> build, res |-> "Denied",
                       msg |-> "Failed to parse custom instruction"]
         /\ verdict' = NoVerdict
         /\ UNCHANGED <<approvals, proposed_at_ms, instructions, role_holders, quorum,
                        transaction_ttl_ms, key, curr_block>>
         /\ UNCHANGED <<queue, txs, now, committed, signature_check_condition, last,
                        threads, root, wasm, runtime, merkle, triggers>>

VisitCustom ==
    \E authority \in Accounts, payload \in Payloads, q \in Quorums, t \in Ttls,
       build \in Builds :
        visit_custom(authority, payload, q, t, build)

\* a later block; the executor is built anew for the next instruction
NextBlock == NewBlock

NextCustom == VisitCustom \/ NextBlock

SpecCustom == InitMultisig /\ [][NextCustom]_vars

\* C35: a Custom instruction whose payload parses gets the verdict of the
\* matching multisig handler, and only a payload that does not parse is
\* denied with "Failed to parse custom instruction"
C35_ParsedGetsHandlerVerdict ==
    custom.payload # "none"
    => IF parses(custom.payload)
       THEN verdict.op # "none"
            => /\ custom.res = verdict.res
               /\ custom.msg = verdict.msg
       ELSE /\ custom.res = "Denied"
            /\ custom.msg = "Failed to parse custom instruction"

\* the places a hash taken into the queue is held at: the ring, the hash the
\* consumer has popped and not looked up yet, and the hashes it will push back
Held(h) ==
    Count(queue, h) + Count(cons.seen, h)
        + (IF cons.pc = "entry" /\ cons.hash = h THEN 1 ELSE 0)

\* C39: whatever the interleaving of the producers' pushes with
\* get_transactions_for_block, no hash is in the ring more than once, counting
\* the hashes the consumer holds to push back, and the transactions collected
\* by one call have distinct hashes.
C39_NoHashTwice ==
    /\ \A h \in Hashes : Held(h) <= 1
    /\ \A i, j \in DOMAIN cons.out :
           cons.out[i].hash = cons.out[j].hash => i = j

\* a call has collected a transaction and holds its hash to push back, another
\* hash is in the ring, and a producer that has found room in the map is about
\* to look up the very hash the consumer holds
C39_Witness ==
    /\ cons.pc = "repush"
    /\ Len(cons.seen) = 1
    /\ Len(cons.out) = 1
    /\ Len(queue) = 1
    /\ \E p \in Producers :
           prod[p].pc = "entry" /\ prod[p].tx.hash = cons.seen[1]

====
